---- MODULE Spec2Model ----
(***************************************************************************)
(* A model of the Axons memory graph client (axons/client.py,              *)
(* axons/permeability.py, axons/plasticity.py, axons/models.py) and of its *)
(* tool surface (axons/mcp/server.py).                                     *)
(*                                                                         *)
(* The property graph is two variables: nodes (one table per node label,   *)
(* a function from primary key to row) and edges (one table per relation,  *)
(* a function from an ordered pair of keys to the sequence of edge rows    *)
(* between that pair, so that parallel edges are representable).  Floats   *)
(* are fixed-point integers: Unit stands for 1.0.  The inputs of every     *)
(* specification are chosen so that every product amount * learning_rate   *)
(* is exact in that representation.                                        *)
(***************************************************************************)
EXTENDS Integers, Sequences, FiniteSets, TLC

VARIABLES
    nodes,                  \* node tables: label -> (id -> row)
    edges,                  \* relation tables: relation -> (<<from, to>> -> Seq(row))
    plasticity,             \* self.plasticity, a PlasticityConfig
    active_compartment_id,  \* self._active_compartment_id
    access_cycle,           \* self._access_cycle
    _closed,                \* self._closed
    calls,                  \* the frames of the strengthen_memory_link calls in progress
    ret                     \* the last call: [op, args, val]

vars == <<nodes, edges, plasticity, active_compartment_id, access_cycle, _closed, calls,
          ret>>

\* vars with ret spelled out: the call first, then what it raised and returned
\* (ret.detail never changes).
observed ==
    <<nodes, edges, plasticity, active_compartment_id, access_cycle, _closed, calls,
      ret.op, ret.exc, ret.args, ret.val>>

(***************************************************************************)
(* Values                                                                  *)
(***************************************************************************)
\* Python's None, for optional strings and for calls that return nothing.
NONE == "None"

\* No call is in progress: every operation runs from its first line to its return.
NoCalls == <<>>

\* Optional numbers are sequences: <<>> is None, <<x>> is the number x.
NoNum == <<>>
Some(x) == <<x>>
IsNone(o) == o = <<>>
Val(o) == o[1]
\* Python truthiness of an Optional[float]: None and 0.0 are falsy.
Truthy(o) == o # <<>> /\ o[1] # 0

\* 1.0 in fixed point.
Unit == 100

Min(a, b) == IF a < b THEN a ELSE b
Max(a, b) == IF a > b THEN a ELSE b

\* x * y for fixed-point x and y.
Mul(x, y) == (x * y) \div Unit

Permeabilities == {"open", "closed", "osmotic_inward", "osmotic_outward"}

NodeLabels == {"Memory", "Concept", "Keyword", "Topic", "Entity", "Source",
               "Decision", "Goal", "Question", "Context", "Preference",
               "TemporalMarker", "Contradiction", "Compartment"}

RelTables == {"HAS_CONCEPT", "HAS_KEYWORD", "BELONGS_TO", "MENTIONS",
              "FROM_SOURCE", "IN_CONTEXT", "INFORMED", "PARTIALLY_ANSWERS",
              "SUPPORTS", "REVEALS", "OCCURRED_DURING", "RELATES_TO",
              "IN_COMPARTMENT", "CONCEPT_RELATED_TO", "DEPENDS_ON", "LED_TO",
              "PART_OF", "CONFLICTS_WITH", "SUPERSEDES"}

\* The state of the store after initialize_schema: every table exists and is empty.
EmptyTable == [k \in {} |-> <<>>]
EmptyNodes == [l \in NodeLabels |-> EmptyTable]
EmptyEdges == [r \in RelTables |-> EmptyTable]

(***************************************************************************)
(* Store primitives (the Cypher clauses the client uses)                   *)
(***************************************************************************)
\* The edge rows of one relation table between a and b, oldest first.
Rows(tbl, a, b) == IF <<a, b>> \in DOMAIN tbl THEN tbl[<<a, b>>] ELSE <<>>

\* tbl with the rows between pair p replaced.
Put(tbl, p, rows) ==
    IF rows = <<>>
    THEN [q \in DOMAIN tbl \ {p} |-> tbl[q]]
    ELSE [q \in DOMAIN tbl \cup {p} |-> IF q = p THEN rows ELSE tbl[q]]

\* CREATE (a)-[r {props}]->(b): always adds a row.
CreateEdge(tbl, a, b, props) == Put(tbl, <<a, b>>, Append(Rows(tbl, a, b), props))

\* MERGE (a)-[r]->(b) ON CREATE SET r = props: adds a row only when the pair has none.
MergeEdgeCreateAlways(tbl, a, b, props) == CreateEdge(tbl, a, b, props)
\* MERGE (a)-[r]->(b) SET r = props: a variant that rewrites the row it finds.
MergeEdgeOverwriting(tbl, a, b, props) == Put(tbl, <<a, b>>, <<props>>)
MergeEdge(tbl, a, b, props) ==
    IF Rows(tbl, a, b) # <<>> THEN tbl ELSE CreateEdge(tbl, a, b, props)

\* MATCH ... WHERE P SET r = F(r): rewrites every matching row.
SetWhere(tbl, P(_, _), F(_)) ==
    [p \in DOMAIN tbl |->
        [i \in 1..Len(tbl[p]) |-> IF P(p, tbl[p][i]) THEN F(tbl[p][i]) ELSE tbl[p][i]]]

\* MATCH ... WHERE P DELETE r: removes every matching row.
DeleteWhere(tbl, P(_, _)) ==
    LET kept(p) == SelectSeq(tbl[p], LAMBDA r : ~P(p, r))
    IN  [p \in {q \in DOMAIN tbl : kept(q) # <<>>} |-> kept(p)]

\* A node table with row added under key id (CREATE (n {id: ...})).
InsertNode(n, label, id, row) ==
    [n EXCEPT ![label] =
        [k \in DOMAIN n[label] \cup {id} |-> IF k = id THEN row ELSE n[label][k]]]

\* A node table with key id removed (MATCH (n {id}) DELETE n).
DeleteNode(n, label, id) ==
    [n EXCEPT ![label] = [k \in DOMAIN n[label] \ {id} |-> n[label][k]]]

Exists(n, label, id) == id \in DOMAIN n[label]

(***************************************************************************)
(* axons/enums.py                                                          *)
(***************************************************************************)
allows_inward(p) == p \in {"open", "osmotic_inward"}
allows_outward(p) == p \in {"open", "osmotic_outward"}

(***************************************************************************)
(* Compartment operations (axons/client.py)                                *)
(***************************************************************************)
\* The ids of the compartments memory_id belongs to; the rows are nodes.Compartment[id].
get_memory_compartments(n, e, memory_id) ==
    {c \in DOMAIN n["Compartment"] : Rows(e["IN_COMPARTMENT"], memory_id, c) # <<>>}

\* UNWIND mids MATCH (m), (c) MERGE (m)-[:IN_COMPARTMENT]->(c); the new IN_COMPARTMENT table.
RECURSIVE add_memory_to_compartment(_, _, _, _)
add_memory_to_compartment(n, tbl, memory_ids, compartment_id) ==
    IF memory_ids = <<>> THEN tbl
    ELSE LET mid == Head(memory_ids)
             t1 == IF Exists(n, "Memory", mid) /\ Exists(n, "Compartment", compartment_id)
                   THEN MergeEdge(tbl, mid, compartment_id, [none |-> NONE])
                   ELSE tbl
         IN  add_memory_to_compartment(n, t1, Tail(memory_ids), compartment_id)

\* The new IN_COMPARTMENT table; compartment_id NONE or "" removes from all compartments.
RECURSIVE remove_memory_from_compartment(_, _, _)
remove_memory_from_compartment(tbl, memory_ids, compartment_id) ==
    IF memory_ids = <<>> THEN tbl
    ELSE LET mid == Head(memory_ids)
             t1 == IF compartment_id # NONE /\ compartment_id # ""
                   THEN DeleteWhere(tbl, LAMBDA p, r : p = <<mid, compartment_id>>)
                   ELSE DeleteWhere(tbl, LAMBDA p, r : p[1] = mid)
         IN  remove_memory_from_compartment(t1, Tail(memory_ids), compartment_id)

(***************************************************************************)
(* axons/permeability.py                                                   *)
(***************************************************************************)
get_memory_permeability(n, memory_id) ==
    IF Exists(n, "Memory", memory_id) THEN n["Memory"][memory_id].permeability ELSE NONE

\* A variant that forgets the second memory's compartments.
can_form_connection_first_only(n, e, memory_id_1, memory_id_2) ==
    LET comps1 == get_memory_compartments(n, e, memory_id_1)
        comps2 == get_memory_compartments(n, e, memory_id_2)
    IN  IF comps1 = {} /\ comps2 = {} THEN TRUE
        ELSE IF comps1 = comps2 /\ comps1 # {} THEN TRUE
        ELSE IF \E c \in comps1 : ~n["Compartment"][c].allowExternalConnections THEN FALSE
        ELSE TRUE

can_form_connection(n, e, memory_id_1, memory_id_2) ==
    LET comps1 == get_memory_compartments(n, e, memory_id_1)
        comps2 == get_memory_compartments(n, e, memory_id_2)
    IN  IF comps1 = {} /\ comps2 = {} THEN TRUE
        ELSE IF comps1 = comps2 /\ comps1 # {} THEN TRUE
        ELSE IF \E c \in comps1 : ~n["Compartment"][c].allowExternalConnections THEN FALSE
        ELSE IF \E c \in comps2 : ~n["Compartment"][c].allowExternalConnections THEN FALSE
        ELSE TRUE

\* A variant that lets data flow between two memories that share a compartment.
can_data_flow_inside_compartment(n, e, from_memory_id, to_memory_id, connection_permeability) ==
    LET from_mem_perm == get_memory_permeability(n, from_memory_id)
        to_mem_perm == get_memory_permeability(n, to_memory_id)
        from_comps == get_memory_compartments(n, e, from_memory_id)
        to_comps == get_memory_compartments(n, e, to_memory_id)
    IN  IF from_comps \cap to_comps # {} THEN TRUE
        ELSE IF from_mem_perm # NONE /\ ~allows_outward(from_mem_perm) THEN FALSE
        ELSE IF to_mem_perm # NONE /\ ~allows_inward(to_mem_perm) THEN FALSE
        ELSE IF \E c \in from_comps : ~allows_outward(n["Compartment"][c].permeability) THEN FALSE
        ELSE IF \E c \in to_comps : ~allows_inward(n["Compartment"][c].permeability) THEN FALSE
        ELSE IF connection_permeability # NONE /\ connection_permeability # ""
                /\ ~allows_inward(connection_permeability) THEN FALSE
        ELSE TRUE

\* A variant that checks the destination's compartments for outward flow.
can_data_flow_wrong_direction(n, e, from_memory_id, to_memory_id, connection_permeability) ==
    LET from_mem_perm == get_memory_permeability(n, from_memory_id)
        to_mem_perm == get_memory_permeability(n, to_memory_id)
        from_comps == get_memory_compartments(n, e, from_memory_id)
        to_comps == get_memory_compartments(n, e, to_memory_id)
    IN  IF from_mem_perm # NONE /\ ~allows_outward(from_mem_perm) THEN FALSE
        ELSE IF to_mem_perm # NONE /\ ~allows_inward(to_mem_perm) THEN FALSE
        ELSE IF \E c \in from_comps : ~allows_outward(n["Compartment"][c].permeability) THEN FALSE
        ELSE IF \E c \in to_comps : ~allows_outward(n["Compartment"][c].permeability) THEN FALSE
        ELSE IF connection_permeability # NONE /\ connection_permeability # ""
                /\ ~allows_inward(connection_permeability) THEN FALSE
        ELSE TRUE

can_data_flow(n, e, from_memory_id, to_memory_id, connection_permeability) ==
    LET from_mem_perm == get_memory_permeability(n, from_memory_id)
        to_mem_perm == get_memory_permeability(n, to_memory_id)
        from_comps == get_memory_compartments(n, e, from_memory_id)
        to_comps == get_memory_compartments(n, e, to_memory_id)
    IN  IF from_mem_perm # NONE /\ ~allows_outward(from_mem_perm) THEN FALSE
        ELSE IF to_mem_perm # NONE /\ ~allows_inward(to_mem_perm) THEN FALSE
        ELSE IF \E c \in from_comps : ~allows_outward(n["Compartment"][c].permeability) THEN FALSE
        ELSE IF \E c \in to_comps : ~allows_inward(n["Compartment"][c].permeability) THEN FALSE
        ELSE IF connection_permeability # NONE /\ connection_permeability # ""
                /\ ~allows_inward(connection_permeability) THEN FALSE
        ELSE TRUE

\* MATCH (m:Memory {id}) SET m.permeability, for each id in turn; the new node tables.
RECURSIVE set_memory_permeability(_, _, _)
set_memory_permeability(n, memory_ids, permeability) ==
    IF memory_ids = <<>> THEN n
    ELSE LET mid == Head(memory_ids)
             n1 == IF Exists(n, "Memory", mid)
                   THEN [n EXCEPT !["Memory"][mid].permeability = permeability]
                   ELSE n
         IN  set_memory_permeability(n1, Tail(memory_ids), permeability)

(***************************************************************************)
(* Interned node creation and compartments (axons/client.py)               *)
(***************************************************************************)
\* The row stored for an object: its fields without the primary key.
RowOf(obj) == [f \in DOMAIN obj \ {"id"} |-> obj[f]]

\* MATCH (x:label) WHERE x.key = obj.key RETURN x.id: the matching primary keys.
Lookup(n, label, keys, obj) ==
    {k \in DOMAIN n[label] : \A f \in keys : n[label][k][f] = obj[f]}

\* A variant that inserts without looking the identifying tuple up.
InternAlwaysInsert(n, label, keys, obj) ==
    [nodes |-> InsertNode(n, label, obj.id, RowOf(obj)), val |-> obj.id]

\* check_query; if result: return result[0]["id"]; else CREATE and return obj.id.
Intern(n, label, keys, obj) ==
    LET result == Lookup(n, label, keys, obj)
    IN  IF result # {}
        THEN [nodes |-> n, val |-> CHOOSE k \in result : TRUE]
        ELSE [nodes |-> InsertNode(n, label, obj.id, RowOf(obj)), val |-> obj.id]

create_concept(n, concept) == Intern(n, "Concept", {"name"}, concept)
create_keyword(n, keyword) == Intern(n, "Keyword", {"term"}, keyword)
create_topic(n, topic) == Intern(n, "Topic", {"name"}, topic)
create_entity(n, entity) == Intern(n, "Entity", {"name", "type"}, entity)
create_source(n, source) == Intern(n, "Source", {"reference", "type"}, source)
create_context(n, context) == Intern(n, "Context", {"name", "type"}, context)
create_compartment(n, compartment) == Intern(n, "Compartment", {"name"}, compartment)

\* create_concept in its two store calls.  The first: the check_query, returning the
\* ids of the concepts of that name.
create_concept_check(n, concept) == Lookup(n, "Concept", {"name"}, concept)

\* A variant whose second part looks the name up again before it inserts.
create_concept_write_rechecking(n, concept, result) == create_concept(n, concept)
\* The second: return result[0]["id"] if the check found a row, else CREATE the node
\* and return concept.id.
create_concept_write(n, concept, result) ==
    IF result # {}
    THEN [nodes |-> n, val |-> CHOOSE k \in result : TRUE]
    ELSE [nodes |-> InsertNode(n, "Concept", concept.id, RowOf(concept)),
          val |-> concept.id]

\* CREATE (m:Memory {...}), then the membership edge of the effective compartment.
\* Returns the new [nodes, edges].
create_memory(n, e, memory, compartment_id) ==
    LET n1 == InsertNode(n, "Memory", memory.id, RowOf(memory))
        effective_compartment ==
            IF compartment_id # NONE THEN compartment_id ELSE active_compartment_id
    IN  IF effective_compartment # NONE /\ effective_compartment # ""
        THEN [nodes |-> n1,
              edges |-> [e EXCEPT !["IN_COMPARTMENT"] =
                            add_memory_to_compartment(n1, @, <<memory.id>>,
                                                      effective_compartment)]]
        ELSE [nodes |-> n1, edges |-> e]

\* Arguments left at None are not written (allow_external_connections is optional:
\* <<>> or <<b>>).
update_compartment(n, compartment_id, permeability, allow_external_connections) ==
    IF ~Exists(n, "Compartment", compartment_id) THEN n
    ELSE LET row == n["Compartment"][compartment_id]
             r1 == IF permeability # NONE
                   THEN [row EXCEPT !.permeability = permeability] ELSE row
             r2 == IF allow_external_connections # <<>>
                   THEN [r1 EXCEPT !.allowExternalConnections = allow_external_connections[1]]
                   ELSE r1
         IN  [n EXCEPT !["Compartment"][compartment_id] = r2]

\* A variant that deletes whether or not the compartment has memories.
delete_compartment_without_check(n, e, compartment_id, reassign_memories) ==
    [nodes |-> DeleteNode(n, "Compartment", compartment_id),
     edges |-> [e EXCEPT !["IN_COMPARTMENT"] =
                   DeleteWhere(@, LAMBDA p, r : p[2] = compartment_id)],
     exc |-> NONE]

\* Returns [nodes, edges, exc]; exc is "ValueError" when the delete is refused.
delete_compartment(n, e, compartment_id, reassign_memories) ==
    LET count == Cardinality({p \in DOMAIN e["IN_COMPARTMENT"] : p[2] = compartment_id})
    IN  IF ~reassign_memories /\ count > 0
        THEN [nodes |-> n, edges |-> e, exc |-> "ValueError"]
        ELSE [nodes |-> DeleteNode(n, "Compartment", compartment_id),
              edges |-> [e EXCEPT !["IN_COMPARTMENT"] =
                            DeleteWhere(@, LAMBDA p, r : p[2] = compartment_id)],
              exc |-> NONE]

(***************************************************************************)
(* Calls                                                                   *)
(***************************************************************************)
\* ret observes the last call: what it returned (val) or raised (exc), NONE where
\* there is none, and its arguments when the observation is detailed (ret.detail,
\* fixed by the initial state).
Args(args) == IF ret.detail THEN args ELSE <<>>
Ret(op, args, val) ==
    [op |-> op, args |-> Args(args), val |-> val, exc |-> NONE, detail |-> ret.detail]
Raised(op, args, exc) ==
    [op |-> op, args |-> Args(args), val |-> NONE, exc |-> exc, detail |-> ret.detail]

\* uuid4: a key of the pool that the table does not hold yet (the first such, the
\* keys being interchangeable).
RECURSIVE FirstUnused(_, _)
FirstUnused(pool, used) ==
    IF pool = <<>> THEN NONE
    ELSE IF Head(pool) \notin used THEN Head(pool)
    ELSE FirstUnused(Tail(pool), used)

FreshId(pool, label) == FirstUnused(pool, DOMAIN nodes[label])

ToSet(seq) == {seq[i] : i \in 1..Len(seq)}

\* _check_closed passes: the call is made on a client that has not been closed, and
\* leaves it so.  The calls that are also made on a closed client say what they do
\* there themselves.
OnOpenClient == ~_closed /\ UNCHANGED <<_closed, calls>>

\* _run_write raises at _check_closed before the CREATE reaches the database.
CreateMemory(pool, permeability, compartment_id) ==
    /\ FreshId(pool, "Memory") # NONE
    /\ LET memory == [id |-> FreshId(pool, "Memory"), permeability |-> permeability,
                      accessCount |-> 0]
           g == IF _closed THEN [nodes |-> nodes, edges |-> edges]
                ELSE create_memory(nodes, edges, memory, compartment_id)
       IN  /\ nodes' = g.nodes
           /\ edges' = g.edges
           /\ ret' = IF _closed
                      THEN Raised("create_memory", <<compartment_id>>, "RuntimeError")
                      ELSE Ret("create_memory", <<compartment_id>>, memory.id)
    /\ UNCHANGED <<_closed, calls>>
    /\ UNCHANGED <<plasticity, active_compartment_id, access_cycle>>

CreateCompartment(pool, name, permeability, allow_external_connections, description) ==
    /\ OnOpenClient
    /\ FreshId(pool, "Compartment") # NONE
    /\ LET compartment == [id |-> FreshId(pool, "Compartment"), name |-> name,
                           permeability |-> permeability,
                           allowExternalConnections |-> allow_external_connections,
                           description |-> description]
           r == create_compartment(nodes, compartment)
       IN  /\ nodes' = r.nodes
           /\ ret' = Ret("create_compartment", <<compartment>>, r.val)
    /\ UNCHANGED <<edges, plasticity, active_compartment_id, access_cycle>>

UpdateCompartment(compartment_id, permeability, allow_external_connections) ==
    /\ OnOpenClient
    /\ nodes' = update_compartment(nodes, compartment_id, permeability,
                                   allow_external_connections)
    /\ ret' = Ret("update_compartment", <<>>, NONE)
    /\ UNCHANGED <<edges, plasticity, active_compartment_id, access_cycle>>

DeleteCompartment(compartment_id, reassign_memories) ==
    /\ OnOpenClient
    /\ LET r == delete_compartment(nodes, edges, compartment_id, reassign_memories)
       IN  /\ nodes' = r.nodes
           /\ edges' = r.edges
           /\ ret' = IF r.exc # NONE
                      THEN Raised("delete_compartment",
                                  <<compartment_id, reassign_memories>>, r.exc)
                      ELSE Ret("delete_compartment",
                               <<compartment_id, reassign_memories>>, NONE)
    /\ UNCHANGED <<plasticity, active_compartment_id, access_cycle>>

AddMemoryToCompartment(memory_ids, compartment_id) ==
    /\ OnOpenClient
    /\ edges' = [edges EXCEPT !["IN_COMPARTMENT"] =
                    add_memory_to_compartment(nodes, @, memory_ids, compartment_id)]
    /\ ret' = Ret("add_memory_to_compartment", <<>>, NONE)
    /\ UNCHANGED <<nodes, plasticity, active_compartment_id, access_cycle>>

RemoveMemoryFromCompartment(memory_ids, compartment_id) ==
    /\ OnOpenClient
    /\ edges' = [edges EXCEPT !["IN_COMPARTMENT"] =
                    remove_memory_from_compartment(@, memory_ids, compartment_id)]
    /\ ret' = Ret("remove_memory_from_compartment", <<>>, NONE)
    /\ UNCHANGED <<nodes, plasticity, active_compartment_id, access_cycle>>

SetMemoryPermeability(memory_ids, permeability) ==
    /\ OnOpenClient
    /\ nodes' = set_memory_permeability(nodes, memory_ids, permeability)
    /\ ret' = Ret("set_memory_permeability", <<>>, NONE)
    /\ UNCHANGED <<edges, plasticity, active_compartment_id, access_cycle>>

CanDataFlow(from_memory_id, to_memory_id, connection_permeability) ==
    /\ OnOpenClient
    /\ ret' = Ret("can_data_flow",
                  <<from_memory_id, to_memory_id, connection_permeability>>,
                  can_data_flow(nodes, edges, from_memory_id, to_memory_id,
                                connection_permeability))
    /\ UNCHANGED <<nodes, edges, plasticity, active_compartment_id, access_cycle>>

CanFormConnection(memory_id_1, memory_id_2) ==
    /\ OnOpenClient
    /\ ret' = Ret("can_form_connection", <<memory_id_1, memory_id_2>>,
                  can_form_connection(nodes, edges, memory_id_1, memory_id_2))
    /\ UNCHANGED <<nodes, edges, plasticity, active_compartment_id, access_cycle>>

(***************************************************************************)
(* Shared by the specifications below                                      *)
(***************************************************************************)
PermMemPool == <<"m1", "m2">>
PermCompPool == <<"c1", "c2">>
PermMemIds == ToSet(PermMemPool)
PermCompIds == ToSet(PermCompPool)
PermCompNames == {"Open", "Locked"}

DefaultConfig ==
    [learning_rate |-> Unit,
     strengthen_amount |-> 10, weaken_amount |-> 10, hebbian_amount |-> 5,
     retrieval_amount |-> 2, decay_amount |-> 5,
     initial_strength_explicit |-> 50, initial_strength_implicit |-> 30,
     max_strength |-> Unit, min_strength |-> 0,
     curve |-> "linear", curve_steepness |-> 50,
     decay_threshold |-> 50, decay_all |-> FALSE,
     prune_threshold |-> 1, auto_prune |-> TRUE,
     retrieval_strengthens |-> TRUE, retrieval_weakens_competitors |-> FALSE,
     competitor_distance |-> 10,
     hebbian_creates_connections |-> TRUE]

\* The client after construction and initialize_schema, with configuration cfg.
Fresh(cfg, detail) ==
    /\ nodes = EmptyNodes
    /\ edges = EmptyEdges
    /\ plasticity = cfg
    /\ active_compartment_id = NONE
    /\ access_cycle = 0
    /\ _closed = FALSE
    /\ calls = NoCalls
    /\ ret = [op |-> "init", args |-> <<>>, val |-> NONE, exc |-> NONE, detail |-> detail]

(***************************************************************************)
(* SpecFlow: memories and compartments of every permeability are created,  *)
(* joined and changed by the client's operations, and can_data_flow is     *)
(* called on them.                                                         *)
(***************************************************************************)
InitFlow == Fresh(DefaultConfig, TRUE)

NextFlow ==
    \/ \E p \in {"open", "closed"}, c \in {NONE} \cup PermCompIds :
          CreateMemory(PermMemPool, p, c)
    \/ \E name \in PermCompNames, p \in Permeabilities :
          CreateCompartment(PermCompPool, name, p, TRUE, "")
    \/ \E c \in PermCompIds, p \in Permeabilities : UpdateCompartment(c, p, <<>>)
    \/ \E c \in PermCompIds, r \in BOOLEAN : DeleteCompartment(c, r)
    \/ \E m \in PermMemIds, c \in PermCompIds : AddMemoryToCompartment(<<m>>, c)
    \/ \E m \in PermMemIds, c \in PermCompIds \cup {NONE} :
          RemoveMemoryFromCompartment(<<m>>, c)
    \/ \E m \in PermMemIds, p \in Permeabilities : SetMemoryPermeability(<<m>>, p)
    \/ \E a \in PermMemIds, b \in PermMemIds, c \in Permeabilities \cup {NONE} :
          CanDataFlow(a, b, c)

SpecFlow == InitFlow /\ [][NextFlow]_vars

(***************************************************************************)
(* SpecForm: compartments that allow or forbid external connections are    *)
(* created, joined and changed, and can_form_connection is called.         *)
(***************************************************************************)
InitForm == Fresh(DefaultConfig, TRUE)

NextForm ==
    \/ \E c \in {NONE, ""} \cup PermCompIds : CreateMemory(PermMemPool, "open", c)
    \/ \E name \in PermCompNames, a \in BOOLEAN :
          CreateCompartment(PermCompPool, name, "open", a, "")
    \/ \E c \in PermCompIds, a \in BOOLEAN : UpdateCompartment(c, NONE, <<a>>)
    \/ \E c \in PermCompIds, r \in BOOLEAN : DeleteCompartment(c, r)
    \/ \E m \in PermMemIds, c \in PermCompIds : AddMemoryToCompartment(<<m>>, c)
    \/ \E m \in PermMemIds, c \in PermCompIds \cup {NONE} :
          RemoveMemoryFromCompartment(<<m>>, c)
    \/ \E a \in PermMemIds, b \in PermMemIds : CanFormConnection(a, b)

SpecForm == InitForm /\ [][NextForm]_vars

(***************************************************************************)
(* Claims about the permeability evaluator                                 *)
(***************************************************************************)
\* m is a member of compartment c.
InCompartment(m, c) == <<m, c>> \in DOMAIN edges["IN_COMPARTMENT"]
CompartmentsOf(m) == {c \in DOMAIN nodes["Compartment"] : InCompartment(m, c)}

\* C1: for existing memories from and to, can_data_flow(from, to, conn) returns true
\* exactly when from's permeability allows outward, to's allows inward, every
\* compartment of from allows outward, every compartment of to allows inward, and
\* conn, when given, allows inward; so a memory that is in an OPEN and in a CLOSED
\* compartment neither sends to nor receives from any memory.
C1_DataFlowIffEveryLayerPermits ==
    ret.op = "can_data_flow" =>
        LET from == ret.args[1]
            to == ret.args[2]
            conn == ret.args[3]
            in_open_and_closed(m) ==
                \E c1 \in CompartmentsOf(m), c2 \in CompartmentsOf(m) :
                    /\ nodes["Compartment"][c1].permeability = "open"
                    /\ nodes["Compartment"][c2].permeability = "closed"
        IN  (from \in DOMAIN nodes["Memory"] /\ to \in DOMAIN nodes["Memory"]) =>
              /\ ret.val <=>
                   /\ nodes["Memory"][from].permeability \in {"open", "osmotic_outward"}
                   /\ nodes["Memory"][to].permeability \in {"open", "osmotic_inward"}
                   /\ \A c \in CompartmentsOf(from) :
                        nodes["Compartment"][c].permeability \in {"open", "osmotic_outward"}
                   /\ \A c \in CompartmentsOf(to) :
                        nodes["Compartment"][c].permeability \in {"open", "osmotic_inward"}
                   /\ (conn # NONE => conn \in {"open", "osmotic_inward"})
              /\ (in_open_and_closed(from) \/ in_open_and_closed(to)) => ret.val = FALSE

\* can_data_flow has just refused the flow from an OPEN memory that is in an OPEN and
\* in a CLOSED compartment to an OPEN global memory, no connection permeability given.
C1_Witness ==
    /\ ret.op = "can_data_flow"
    /\ ret.val = FALSE
    /\ ret.args[3] = NONE
    /\ ret.args[1] \in DOMAIN nodes["Memory"]
    /\ ret.args[2] \in DOMAIN nodes["Memory"]
    /\ nodes["Memory"][ret.args[1]].permeability = "open"
    /\ nodes["Memory"][ret.args[2]].permeability = "open"
    /\ CompartmentsOf(ret.args[2]) = {}
    /\ \E c1 \in CompartmentsOf(ret.args[1]), c2 \in CompartmentsOf(ret.args[1]) :
          /\ nodes["Compartment"][c1].permeability = "open"
          /\ nodes["Compartment"][c2].permeability = "closed"

C16_DeleteCompartmentInUseFails ==
    [][\A c \in PermCompIds :
          (/\ ret'.op = "delete_compartment"
           /\ ret'.args = <<c, FALSE>>
           /\ \E p \in DOMAIN edges["IN_COMPARTMENT"] : p[2] = c)
          => /\ ret'.exc = "ValueError"
             /\ nodes' = nodes
             /\ edges' = edges
             /\ active_compartment_id' = active_compartment_id
     ]_observed

\* The delete of c1, which holds both memories, has just been refused.
C16_Witness ==
    /\ ret.op = "delete_compartment"
    /\ ret.args = <<"c1", FALSE>>
    /\ ret.exc = "ValueError"
    /\ Exists(nodes, "Compartment", "c1")
    /\ {p \in DOMAIN edges["IN_COMPARTMENT"] : p[2] = "c1"} = {<<"m1", "c1">>, <<"m2", "c1">>}

(***************************************************************************)
(* axons/plasticity.py (cfg is a PlasticityConfig)                         *)
(***************************************************************************)
\* x ** k for fixed-point x and a whole exponent k.
RECURSIVE Pow(_, _)
Pow(x, k) == IF k = 0 THEN Unit ELSE Mul(x, Pow(x, k - 1))

\* get_initial_strength that takes the explicit base for every connection (a faulty
\* variant).
get_initial_strength_always_explicit(cfg, explicit) ==
    Min(cfg.max_strength, Max(cfg.min_strength, cfg.initial_strength_explicit))
\* min(max_strength, max(min_strength, base)); semantic similarity is off by default.
get_initial_strength(cfg, explicit) ==
    LET base == IF explicit THEN cfg.initial_strength_explicit
                ELSE cfg.initial_strength_implicit
    IN  Min(cfg.max_strength, Max(cfg.min_strength, base))

\* current_strength is optional; the non-linear curves compute with it and raise
\* TypeError on None.
_apply_curve_raises(cfg, current_strength) ==
    cfg.curve # "linear" /\ IsNone(current_strength)

\* The exponent 1/steepness is taken for steepness values whose reciprocal is whole.
_apply_curve(cfg, amount, current_strength, for_increase) ==
    IF cfg.curve = "linear" THEN amount
    ELSE LET steepness == Max(10, Min(90, cfg.curve_steepness))
             exponent == Unit \div steepness
             s == Val(current_strength)
         IN  IF cfg.curve = "exponential"
             THEN LET factor == IF for_increase THEN Unit - Pow(s, exponent)
                                ELSE Pow(s, exponent)
                  IN  Mul(amount, Max(10, factor))
             ELSE LET factor == IF for_increase
                                THEN (Unit - steepness) + Mul(s, steepness)
                                ELSE steepness + Mul(Unit - s, Unit - steepness)
                  IN  Mul(amount, factor)

effective_amount(cfg, context, current_strength) ==
    LET amounts == [strengthen |-> cfg.strengthen_amount, weaken |-> cfg.weaken_amount,
                    hebbian |-> cfg.hebbian_amount, retrieval |-> cfg.retrieval_amount,
                    decay |-> cfg.decay_amount]
        base == Mul(IF context \in DOMAIN amounts THEN amounts[context] ELSE 10,
                    cfg.learning_rate)
        for_increase == context \in {"strengthen", "hebbian", "retrieval"}
    IN  _apply_curve(cfg, base, current_strength, for_increase)

(***************************************************************************)
(* Memory links and plasticity operations (axons/client.py)                *)
(***************************************************************************)
\* A variant that only checks the lower bound.
_validate_range_lower_only(value, min_val, max_val) == ~(value < min_val)

\* models._validate_range: TRUE when the value is accepted.
_validate_range(value, min_val, max_val) == ~(value < min_val \/ value > max_val)

\* The strength of the first RELATES_TO row from memory_id_1 to memory_id_2, or None.
get_memory_link_strength(e, memory_id_1, memory_id_2) ==
    LET result == Rows(e["RELATES_TO"], memory_id_1, memory_id_2)
    IN  IF result # <<>> THEN Some(result[1].strength) ELSE NoNum

\* link_memories without the range check and the compartment check (a faulty variant).
link_memories_unvalidated(n, e, memory_id_1, memory_id_2, strength, rel_type, permeability, check_compartments) ==
    [edges |-> [e EXCEPT !["RELATES_TO"] =
                   MergeEdge(@, memory_id_1, memory_id_2,
                             [strength |-> strength, relType |-> rel_type,
                              permeability |-> "open"])],
     val |-> TRUE, exc |-> NONE]
\* A variant that links whatever can_form_connection says.
link_memories_unchecked(n, e, memory_id_1, memory_id_2, strength, rel_type, permeability, check_compartments) ==
    IF ~_validate_range(strength, 0, Unit) THEN [edges |-> e, val |-> FALSE, exc |-> "ValueError"]
    ELSE LET perm_value == IF permeability # NONE THEN permeability ELSE "open"
         IN  [edges |->
                 IF Exists(n, "Memory", memory_id_1) /\ Exists(n, "Memory", memory_id_2)
                 THEN [e EXCEPT !["RELATES_TO"] =
                          MergeEdge(@, memory_id_1, memory_id_2,
                                    [strength |-> strength, relType |-> rel_type,
                                     permeability |-> perm_value])]
                 ELSE e,
              val |-> TRUE, exc |-> NONE]

\* Returns [edges, val, exc]: val is FALSE when blocked, exc "ValueError" when refused.
link_memories(n, e, memory_id_1, memory_id_2, strength, rel_type, permeability, check_compartments) ==
    IF ~_validate_range(strength, 0, Unit) THEN [edges |-> e, val |-> FALSE, exc |-> "ValueError"]
    ELSE IF check_compartments /\ ~can_form_connection(n, e, memory_id_1, memory_id_2)
    THEN [edges |-> e, val |-> FALSE, exc |-> NONE]
    ELSE LET perm_value == IF permeability # NONE THEN permeability ELSE "open"
         IN  [edges |->
                 IF Exists(n, "Memory", memory_id_1) /\ Exists(n, "Memory", memory_id_2)
                 THEN [e EXCEPT !["RELATES_TO"] =
                          MergeEdge(@, memory_id_1, memory_id_2,
                                    [strength |-> strength, relType |-> rel_type,
                                     permeability |-> perm_value])]
                 ELSE e,
              val |-> TRUE, exc |-> NONE]

\* SET r.strength = CASE WHEN r.strength + amount > max THEN max ELSE r.strength + amount.
Raise(r, amount, max) ==
    [r EXCEPT !.strength = IF @ + amount > max THEN max ELSE @ + amount]
\* SET r.strength = CASE WHEN r.strength - amount < min THEN min ELSE r.strength - amount.
Lower(r, amount, min) ==
    [r EXCEPT !.strength = IF @ - amount < min THEN min ELSE @ - amount]

\* strengthen_memory_link without the ceiling and the early return (a faulty variant).
strengthen_memory_link_unclamped(cfg, e, memory_id_1, memory_id_2, amount) ==
    LET eff == IF IsNone(amount) THEN cfg.strengthen_amount
               ELSE Mul(Val(amount), cfg.learning_rate)
    IN  [e EXCEPT !["RELATES_TO"] =
            SetWhere(@, LAMBDA p, r : p = <<memory_id_1, memory_id_2>>,
                        LAMBDA r : [r EXCEPT !.strength = @ + eff])]
\* Returns the new edges.
strengthen_memory_link(cfg, e, memory_id_1, memory_id_2, amount) ==
    LET got == get_memory_link_strength(e, memory_id_1, memory_id_2)
        current == IF Truthy(got) THEN got ELSE Some(0)
        eff == IF IsNone(amount)
               THEN effective_amount(cfg, "strengthen", current)
               ELSE Mul(Val(amount), cfg.learning_rate)
    IN  IF eff <= 0 THEN e
        ELSE [e EXCEPT !["RELATES_TO"] =
                 SetWhere(@, LAMBDA p, r : p = <<memory_id_1, memory_id_2>>,
                             LAMBDA r : Raise(r, eff, cfg.max_strength))]

weaken_memory_link(cfg, e, memory_id_1, memory_id_2, amount) ==
    LET got == get_memory_link_strength(e, memory_id_1, memory_id_2)
        current == IF Truthy(got) THEN got ELSE Some(Unit)
        eff == IF IsNone(amount)
               THEN effective_amount(cfg, "weaken", current)
               ELSE Mul(Val(amount), cfg.learning_rate)
    IN  IF eff <= 0 THEN e
        ELSE [e EXCEPT !["RELATES_TO"] =
                 SetWhere(@, LAMBDA p, r : p = <<memory_id_1, memory_id_2>>,
                             LAMBDA r : Lower(r, eff, cfg.min_strength))]

\* prune_dead_connections that spares the edges exactly at the threshold (a faulty
\* variant).
prune_dead_connections_below_only(cfg, e, min_strength) ==
    LET m == IF IsNone(min_strength) THEN cfg.prune_threshold ELSE Val(min_strength)
    IN  [e EXCEPT !["RELATES_TO"] = DeleteWhere(@, LAMBDA p, r : r.strength < m)]
\* DELETE of every RELATES_TO row whose strength is at or below the threshold.
prune_dead_connections(cfg, e, min_strength) ==
    LET m == IF IsNone(min_strength) THEN cfg.prune_threshold ELSE Val(min_strength)
    IN  [e EXCEPT !["RELATES_TO"] = DeleteWhere(@, LAMBDA p, r : r.strength <= m)]

\* decay_amount as given, or effective_amount('decay', 0.5) when it is None.
DecayAmount(cfg, decay_amount) ==
    IF IsNone(decay_amount) THEN effective_amount(cfg, "decay", Some(50))
    ELSE Val(decay_amount)

\* decay_weak_connections that also decays the edges exactly at the threshold (a
\* faulty variant).
decay_weak_connections_at_threshold(cfg, e, threshold, decay_amount) ==
    LET th == IF IsNone(threshold) THEN cfg.decay_threshold ELSE Val(threshold)
        amt == IF IsNone(decay_amount) THEN effective_amount(cfg, "decay", Some(50))
               ELSE Val(decay_amount)
    IN  IF amt <= 0 THEN e
        ELSE LET e1 == [e EXCEPT !["RELATES_TO"] =
                          SetWhere(@, LAMBDA p, r : cfg.decay_all \/ r.strength <= th,
                                      LAMBDA r : Lower(r, amt, cfg.min_strength))]
             IN  IF cfg.auto_prune THEN prune_dead_connections(cfg, e1, NoNum) ELSE e1
\* decay_weak_connections that decays every edge whatever the threshold (a faulty
\* variant).
decay_weak_connections_ignoring_threshold(cfg, e, threshold, decay_amount) ==
    LET amt == IF IsNone(decay_amount) THEN effective_amount(cfg, "decay", Some(50))
               ELSE Val(decay_amount)
    IN  IF amt <= 0 THEN e
        ELSE LET e1 == [e EXCEPT !["RELATES_TO"] =
                          SetWhere(@, LAMBDA p, r : TRUE,
                                      LAMBDA r : Lower(r, amt, cfg.min_strength))]
             IN  IF cfg.auto_prune THEN prune_dead_connections(cfg, e1, NoNum) ELSE e1
\* An explicit decay_amount is used as given; the default is effective_amount.
decay_weak_connections(cfg, e, threshold, decay_amount) ==
    LET th == IF IsNone(threshold) THEN cfg.decay_threshold ELSE Val(threshold)
        amt == IF IsNone(decay_amount) THEN effective_amount(cfg, "decay", Some(50))
               ELSE Val(decay_amount)
    IN  IF amt <= 0 THEN e
        ELSE LET e1 == [e EXCEPT !["RELATES_TO"] =
                          SetWhere(@, LAMBDA p, r : cfg.decay_all \/ r.strength < th,
                                      LAMBDA r : Lower(r, amt, cfg.min_strength))]
             IN  IF cfg.auto_prune THEN prune_dead_connections(cfg, e1, NoNum) ELSE e1

\* The pairs (ids[i], ids[j]), i < j, in the order of the two loops.
RECURSIVE PairsFrom(_, _)
PairsFrom(id1, rest) ==
    IF rest = <<>> THEN <<>> ELSE <<<<id1, Head(rest)>>>> \o PairsFrom(id1, Tail(rest))
RECURSIVE Pairs(_)
Pairs(memory_ids) ==
    IF memory_ids = <<>> THEN <<>>
    ELSE PairsFrom(Head(memory_ids), Tail(memory_ids)) \o Pairs(Tail(memory_ids))

\* A variant that consults the compartments before it strengthens as well.
HebbianPair_checking_existing(cfg, n, e, id1, id2, amount, respect_compartments) ==
    LET strength_fwd == get_memory_link_strength(e, id1, id2)
        strength_rev == get_memory_link_strength(e, id2, id1)
        has_connection == ~IsNone(strength_fwd) \/ ~IsNone(strength_rev)
    IN  IF respect_compartments /\ ~can_form_connection(n, e, id1, id2)
        THEN [edges |-> e, exc |-> NONE]
        ELSE IF ~has_connection /\ cfg.hebbian_creates_connections
        THEN LET initial == get_initial_strength(cfg, FALSE)
                 l1 == link_memories(n, e, id1, id2, initial, "hebbian", NONE, FALSE)
                 l2 == link_memories(n, l1.edges, id2, id1, initial, "hebbian",
                                     NONE, FALSE)
             IN  IF l1.exc # NONE THEN [edges |-> e, exc |-> "ValueError"]
                 ELSE [edges |-> l2.edges, exc |-> NONE]
        ELSE IF has_connection
        THEN LET current == IF Truthy(strength_fwd) THEN strength_fwd ELSE strength_rev
                 effective == IF Truthy(amount) THEN Val(amount)
                              ELSE effective_amount(cfg, "hebbian", current)
             IN  IF ~Truthy(amount) /\ _apply_curve_raises(cfg, current)
                 THEN [edges |-> e, exc |-> "TypeError"]
                 ELSE LET e1 == IF ~IsNone(strength_fwd)
                                THEN strengthen_memory_link(cfg, e, id1, id2, Some(effective))
                                ELSE e
                          e2 == IF ~IsNone(strength_rev)
                                THEN strengthen_memory_link(cfg, e1, id2, id1, Some(effective))
                                ELSE e1
                      IN  [edges |-> e2, exc |-> NONE]
        ELSE [edges |-> e, exc |-> NONE]

\* The body of the loops of apply_hebbian_learning for one pair: [edges, exc], exc
\* NONE or the exception that ends the call.
HebbianPair(cfg, n, e, id1, id2, amount, respect_compartments) ==
    LET strength_fwd == get_memory_link_strength(e, id1, id2)
        strength_rev == get_memory_link_strength(e, id2, id1)
        has_connection == ~IsNone(strength_fwd) \/ ~IsNone(strength_rev)
    IN  IF ~has_connection /\ cfg.hebbian_creates_connections
        THEN IF respect_compartments /\ ~can_form_connection(n, e, id1, id2)
             THEN [edges |-> e, exc |-> NONE]
             ELSE LET initial == get_initial_strength(cfg, FALSE)
                      l1 == link_memories(n, e, id1, id2, initial, "hebbian", NONE, FALSE)
                      l2 == link_memories(n, l1.edges, id2, id1, initial, "hebbian",
                                          NONE, FALSE)
                  IN  IF l1.exc # NONE THEN [edges |-> e, exc |-> "ValueError"]
                      ELSE [edges |-> l2.edges, exc |-> NONE]
        ELSE IF has_connection
        THEN LET current == IF Truthy(strength_fwd) THEN strength_fwd ELSE strength_rev
                 effective == IF Truthy(amount) THEN Val(amount)
                              ELSE effective_amount(cfg, "hebbian", current)
             IN  IF ~Truthy(amount) /\ _apply_curve_raises(cfg, current)
                 THEN [edges |-> e, exc |-> "TypeError"]
                 ELSE LET e1 == IF ~IsNone(strength_fwd)
                                THEN strengthen_memory_link(cfg, e, id1, id2, Some(effective))
                                ELSE e
                          e2 == IF ~IsNone(strength_rev)
                                THEN strengthen_memory_link(cfg, e1, id2, id1, Some(effective))
                                ELSE e1
                      IN  [edges |-> e2, exc |-> NONE]
        ELSE [edges |-> e, exc |-> NONE]

\* HebbianPair over the pairs in order, stopping at an exception.
RECURSIVE HebbianLoop(_, _, _, _, _, _)
HebbianLoop(cfg, n, e, pairs, amount, respect_compartments) ==
    IF pairs = <<>> THEN [edges |-> e, exc |-> NONE]
    ELSE LET r == HebbianPair(cfg, n, e, Head(pairs)[1], Head(pairs)[2], amount,
                              respect_compartments)
         IN  IF r.exc # NONE THEN r
             ELSE HebbianLoop(cfg, n, r.edges, Tail(pairs), amount, respect_compartments)

\* apply_hebbian_learning that never consults the compartments (a faulty variant).
apply_hebbian_learning_ignoring_compartments(cfg, n, e, memory_ids, amount, respect_compartments) ==
    HebbianLoop(cfg, n, e, Pairs(memory_ids), amount, FALSE)
\* Returns [edges, exc].
apply_hebbian_learning(cfg, n, e, memory_ids, amount, respect_compartments) ==
    HebbianLoop(cfg, n, e, Pairs(memory_ids), amount, respect_compartments)

\* SET r.relevance = CASE WHEN r.relevance + amount > 1.0 THEN 1.0 ELSE ... on the
\* HAS_CONCEPT rows from memory_id to concept_id.
strengthen_concept_relevance(cfg, e, memory_id, concept_id, amount) ==
    LET amt == IF IsNone(amount) THEN effective_amount(cfg, "strengthen", Some(50))
               ELSE Val(amount)
    IN  IF amt <= 0 THEN e
        ELSE [e EXCEPT !["HAS_CONCEPT"] =
                 SetWhere(@, LAMBDA p, r : p = <<memory_id, concept_id>>,
                             LAMBDA r : [r EXCEPT !.relevance =
                                            IF @ + amt > Unit THEN Unit ELSE @ + amt])]

\* The number of RELATES_TO rows between a and b in either direction (a self-loop
\* row is one match of the undirected pattern).
Adjacent(tbl, a, b) ==
    IF a = b THEN Len(Rows(tbl, a, a)) ELSE Len(Rows(tbl, a, b)) + Len(Rows(tbl, b, a))

\* The number of result rows of the two MATCH clauses of _weaken_competitors that
\* bind r to a row of pair p: one for every way of reaching an end of r (the
\* competitor) from the accessed memory while the other end is not the accessed one.
CompetitorMatches(tbl, id, p) ==
    IF p[1] = p[2]
    THEN IF p[1] # id THEN Adjacent(tbl, id, p[1]) ELSE 0
    ELSE (IF p[2] # id THEN Adjacent(tbl, id, p[1]) ELSE 0)
         + (IF p[1] # id THEN Adjacent(tbl, id, p[2]) ELSE 0)

\* r after the SET has been applied k times.
RECURSIVE LowerTimes(_, _, _, _)
LowerTimes(r, amount, min, k) ==
    IF k = 0 THEN r ELSE LowerTimes(Lower(r, amount, min), amount, min, k - 1)

\* per_row: whether the engine applies the SET once for every result row that binds
\* r, each reading what the one before wrote, or once for every matched r.
_weaken_competitors(cfg, e, accessed_memory_id, per_row) ==
    LET amount == Mul(Mul(cfg.weaken_amount, cfg.learning_rate), cfg.competitor_distance)
        tbl == e["RELATES_TO"]
    IN  IF amount <= 0 THEN e
        ELSE [e EXCEPT !["RELATES_TO"] =
                 [p \in DOMAIN tbl |->
                     [i \in 1..Len(tbl[p]) |->
                         LET k == CompetitorMatches(tbl, accessed_memory_id, p)
                         IN  LowerTimes(tbl[p][i], amount, cfg.min_strength,
                                        IF per_row THEN k ELSE Min(k, 1))]]]

\* via_concept_id is NONE when the memory was not reached through a concept.
_apply_retrieval_effects(cfg, e, memory_id, via_concept_id, per_row) ==
    IF ~cfg.retrieval_strengthens THEN e
    ELSE LET amount == effective_amount(cfg, "retrieval", Some(50))
             e1 == IF amount > 0
                   THEN [e EXCEPT !["RELATES_TO"] =
                            SetWhere(@, LAMBDA p, r : p[2] = memory_id,
                                        LAMBDA r : Raise(r, amount, cfg.max_strength))]
                   ELSE e
             e2 == IF via_concept_id # NONE /\ via_concept_id # ""
                   THEN strengthen_concept_relevance(cfg, e1, memory_id, via_concept_id, NoNum)
                   ELSE e1
         IN  IF cfg.retrieval_weakens_competitors
             THEN _weaken_competitors(cfg, e2, memory_id, per_row)
             ELSE e2

\* A variant that counts an access only when retrieval effects are applied.
get_memory_counting_effects_only(cfg, n, e, memory_id, apply_retrieval_effects, per_row) ==
    IF ~Exists(n, "Memory", memory_id) THEN [nodes |-> n, edges |-> e, val |-> NoNum]
    ELSE LET n1 == IF apply_retrieval_effects
                   THEN [n EXCEPT !["Memory"][memory_id].accessCount = @ + 1]
                   ELSE n
         IN  [nodes |-> n1,
              edges |-> IF apply_retrieval_effects
                        THEN _apply_retrieval_effects(cfg, e, memory_id, NONE, per_row)
                        ELSE e,
              val |-> Some(n1["Memory"][memory_id].accessCount)]

\* Returns [nodes, edges, val]: val is the accessCount of the returned row, or None
\* (<<>>) when there is no such memory.
get_memory(cfg, n, e, memory_id, apply_retrieval_effects, per_row) ==
    IF ~Exists(n, "Memory", memory_id) THEN [nodes |-> n, edges |-> e, val |-> NoNum]
    ELSE LET n1 == [n EXCEPT !["Memory"][memory_id].accessCount = @ + 1]
         IN  [nodes |-> n1,
              edges |-> IF apply_retrieval_effects
                        THEN _apply_retrieval_effects(cfg, e, memory_id, NONE, per_row)
                        ELSE e,
              val |-> Some(n1["Memory"][memory_id].accessCount)]

\* A variant whose decay pass ignores decay_threshold.
run_maintenance_cycle_decaying_all(cfg, e) ==
    decay_weak_connections([cfg EXCEPT !.decay_all = TRUE], e, NoNum, NoNum)

\* self._access_cycle += 1, then decay_weak_connections().
run_maintenance_cycle(cfg, e) == decay_weak_connections(cfg, e, NoNum, NoNum)

(***************************************************************************)
(* Calls of the link and plasticity operations                             *)
(***************************************************************************)
LinkMemories(memory_id_1, memory_id_2, strength, rel_type, permeability, check_compartments) ==
    /\ OnOpenClient
    /\ LET r == link_memories(nodes, edges, memory_id_1, memory_id_2, strength,
                              rel_type, permeability, check_compartments)
       IN  /\ edges' = r.edges
           /\ ret' = IF r.exc # NONE
                      THEN Raised("link_memories",
                                  <<memory_id_1, memory_id_2, strength, check_compartments>>,
                                  r.exc)
                      ELSE Ret("link_memories",
                               <<memory_id_1, memory_id_2, strength, check_compartments>>,
                               r.val)
    /\ UNCHANGED <<nodes, plasticity, active_compartment_id, access_cycle>>

\* ret.current is the strength the call read before it wrote (None: no such edge).
StrengthenMemoryLink(memory_id_1, memory_id_2, amount) ==
    /\ OnOpenClient
    /\ edges' = strengthen_memory_link(plasticity, edges, memory_id_1, memory_id_2, amount)
    /\ ret' = [op |-> "strengthen_memory_link",
               args |-> Args(<<memory_id_1, memory_id_2, amount>>),
               val |-> NONE, exc |-> NONE, detail |-> ret.detail,
               current |-> IF ret.detail
                           THEN get_memory_link_strength(edges, memory_id_1, memory_id_2)
                           ELSE NoNum]
    /\ UNCHANGED <<nodes, plasticity, active_compartment_id, access_cycle>>

WeakenMemoryLink(memory_id_1, memory_id_2, amount) ==
    /\ OnOpenClient
    /\ edges' = weaken_memory_link(plasticity, edges, memory_id_1, memory_id_2, amount)
    /\ ret' = [op |-> "weaken_memory_link",
               args |-> Args(<<memory_id_1, memory_id_2, amount>>),
               val |-> NONE, exc |-> NONE, detail |-> ret.detail,
               current |-> IF ret.detail
                           THEN get_memory_link_strength(edges, memory_id_1, memory_id_2)
                           ELSE NoNum]
    /\ UNCHANGED <<nodes, plasticity, active_compartment_id, access_cycle>>

ApplyHebbianLearning(memory_ids, amount, respect_compartments) ==
    /\ OnOpenClient
    /\ LET r == apply_hebbian_learning(plasticity, nodes, edges, memory_ids, amount,
                                       respect_compartments)
           args == <<memory_ids, amount, respect_compartments>>
       IN  /\ edges' = r.edges
           /\ ret' = IF r.exc # NONE THEN Raised("apply_hebbian_learning", args, r.exc)
                      ELSE Ret("apply_hebbian_learning", args, NONE)
    /\ UNCHANGED <<nodes, plasticity, active_compartment_id, access_cycle>>

\* On a closed client the call returns before its first query when the decay amount
\* is not positive, and raises at _check_closed otherwise.
DecayWeakConnections(threshold, decay_amount) ==
    /\ edges' = IF _closed THEN edges
                ELSE decay_weak_connections(plasticity, edges, threshold, decay_amount)
    /\ ret' = IF _closed /\ DecayAmount(plasticity, decay_amount) > 0
              THEN Raised("decay_weak_connections", <<threshold, decay_amount>>,
                          "RuntimeError")
              ELSE Ret("decay_weak_connections", <<threshold, decay_amount>>, NONE)
    /\ UNCHANGED <<_closed, calls>>
    /\ UNCHANGED <<nodes, plasticity, active_compartment_id, access_cycle>>

PruneDeadConnections(min_strength) ==
    /\ edges' = IF _closed THEN edges
                ELSE prune_dead_connections(plasticity, edges, min_strength)
    /\ ret' = IF _closed
              THEN Raised("prune_dead_connections", <<min_strength>>, "RuntimeError")
              ELSE Ret("prune_dead_connections", <<min_strength>>, NONE)
    /\ UNCHANGED <<_closed, calls>>
    /\ UNCHANGED <<nodes, plasticity, active_compartment_id, access_cycle>>

\* The cycle counter is unbounded in the code; the model stops counting at max_cycles.
\* The counter is incremented before decay_weak_connections is called, on a closed
\* client too.
RunMaintenanceCycle(max_cycles) ==
    /\ access_cycle < max_cycles
    /\ access_cycle' = access_cycle + 1
    /\ edges' = IF _closed THEN edges ELSE run_maintenance_cycle(plasticity, edges)
    /\ ret' = IF _closed /\ DecayAmount(plasticity, NoNum) > 0
              THEN Raised("run_maintenance_cycle", <<>>, "RuntimeError")
              ELSE Ret("run_maintenance_cycle", <<>>, NONE)
    /\ UNCHANGED <<_closed, calls>>
    /\ UNCHANGED <<nodes, plasticity, active_compartment_id>>

\* accessCount is unbounded in the code; the model stops reading a memory at max_access.
GetMemory(memory_id, apply_retrieval_effects, per_row, max_access) ==
    /\ OnOpenClient
    /\ Exists(nodes, "Memory", memory_id) => nodes["Memory"][memory_id].accessCount < max_access
    /\ LET r == get_memory(plasticity, nodes, edges, memory_id, apply_retrieval_effects,
                           per_row)
       IN  /\ nodes' = r.nodes
           /\ edges' = r.edges
           /\ ret' = Ret("get_memory", <<memory_id, apply_retrieval_effects>>, r.val)
    /\ UNCHANGED <<plasticity, active_compartment_id, access_cycle>>

(***************************************************************************)
(* SpecPlast: two memories are linked in both directions, and the          *)
(* plasticity operations run on them under one of three configurations:    *)
(* the full range, a narrowed range with half learning rate, and learning  *)
(* rate zero.  Strengths move in steps of a quarter.                       *)
(***************************************************************************)
MaxCycles == 1
MaxAccess == 1

PlastMemPool == <<"m1", "m2">>
PlastPairs == {<<"m1", "m2">>, <<"m2", "m1">>}
PlastStrengths == {0, 50, Unit, Unit + 25}
PlastAmounts == {NoNum, Some(0 - 50), Some(50)}
PlastLists == {<<"m1", "m2">>, <<"m2", "m1">>}

FullRangeConfig ==
    [DefaultConfig EXCEPT !.strengthen_amount = 25, !.weaken_amount = 25,
                          !.hebbian_amount = 25, !.retrieval_amount = 25,
                          !.decay_amount = 25, !.initial_strength_implicit = 25]
NarrowConfig ==
    [DefaultConfig EXCEPT !.learning_rate = 50, !.min_strength = 25, !.max_strength = 75,
                          !.strengthen_amount = 50, !.weaken_amount = 50,
                          !.hebbian_amount = Unit, !.retrieval_amount = 50,
                          !.decay_amount = 50, !.initial_strength_implicit = 0,
                          !.decay_all = TRUE, !.retrieval_weakens_competitors = TRUE,
                          !.competitor_distance = Unit]
ZeroRateConfig ==
    [FullRangeConfig EXCEPT !.learning_rate = 0, !.retrieval_weakens_competitors = TRUE,
                            !.competitor_distance = Unit]
PlastConfigs == {FullRangeConfig, NarrowConfig, ZeroRateConfig}

InitPlast == \E cfg \in PlastConfigs : Fresh(cfg, FALSE)

NextPlast ==
    \/ CreateMemory(PlastMemPool, "open", NONE)
    \/ \E p \in PlastPairs, s \in PlastStrengths :
          LinkMemories(p[1], p[2], s, "", NONE, FALSE)
    \/ \E p \in PlastPairs, a \in PlastAmounts : StrengthenMemoryLink(p[1], p[2], a)
    \/ \E p \in PlastPairs, a \in PlastAmounts : WeakenMemoryLink(p[1], p[2], a)
    \/ \E l \in PlastLists, a \in {NoNum, Some(0), Some(50)}, r \in BOOLEAN :
          ApplyHebbianLearning(l, a, r)
    \/ \E t \in {NoNum, Some(Unit)}, a \in {NoNum, Some(0), Some(25)} :
          DecayWeakConnections(t, a)
    \/ \E m \in {NoNum, Some(25)} : PruneDeadConnections(m)
    \/ RunMaintenanceCycle(MaxCycles)
    \/ \E m \in ToSet(PlastMemPool), a \in BOOLEAN, per_row \in BOOLEAN :
          GetMemory(m, a, per_row, MaxAccess)

SpecPlast == InitPlast /\ [][NextPlast]_vars

\* decay_weak_connections(threshold, decay_amount) followed by prune_dead_connections().
DecayThenPrune(cfg, e, threshold, decay_amount) ==
    prune_dead_connections(cfg, decay_weak_connections(cfg, e, threshold, decay_amount),
                           NoNum)

DecayThresholds == {NoNum, Some(Unit)}
DecayAmounts == {NoNum, Some(25)}

\* C12 as stated: from every reachable graph, decay_weak_connections followed by
\* prune_dead_connections, applied a second time with no other write in between,
\* leaves the Memory->Memory edges and their strengths as they were after the first
\* application.
C12_DecayPruneIdempotent ==
    \A t \in DecayThresholds, d \in DecayAmounts :
        LET first == DecayThenPrune(plasticity, edges, t, d)
        IN  DecayThenPrune(plasticity, first, t, d)["RELATES_TO"] = first["RELATES_TO"]

\* C12 amended: the second application leaves the edges as the first left them
\* exactly when the decay amount is not positive or every edge the first application
\* left is no longer subject to decay (at or above the threshold with decay_all off)
\* or already at min_strength; any other edge is changed or deleted by it.
C12_DecayPruneIdempotentWhenSettled ==
    \A t \in DecayThresholds, d \in DecayAmounts :
        LET first == DecayThenPrune(plasticity, edges, t, d)
            th == IF IsNone(t) THEN plasticity.decay_threshold ELSE Val(t)
            amt == IF IsNone(d) THEN Mul(plasticity.decay_amount, plasticity.learning_rate)
                   ELSE Val(d)
            settled(r) == \/ ~plasticity.decay_all /\ r.strength >= th
                          \/ r.strength = plasticity.min_strength
        IN  (DecayThenPrune(plasticity, first, t, d)["RELATES_TO"] = first["RELATES_TO"])
            <=> (\/ amt <= 0
                 \/ \A p \in DOMAIN first["RELATES_TO"] :
                       \A i \in 1..Len(first["RELATES_TO"][p]) :
                           settled(first["RELATES_TO"][p][i]))

\* decay_weak_connections has just run and pruned, an edge is left, and running
\* decay and prune again lowers or deletes it.
C12_Witness ==
    /\ ret.op = "decay_weak_connections"
    /\ plasticity.auto_prune
    /\ DOMAIN edges["RELATES_TO"] # {}
    /\ DecayThenPrune(plasticity, edges, NoNum, NoNum)["RELATES_TO"] # edges["RELATES_TO"]

\* C13: whenever decay_weak_connections returns while auto_prune is enabled, no
\* Memory->Memory edge with strength at or below prune_threshold remains.
C13_DecayLeavesNoDeadEdge ==
    (ret.op = "decay_weak_connections" /\ plasticity.auto_prune) =>
        \A p \in DOMAIN edges["RELATES_TO"] :
            \A i \in 1..Len(edges["RELATES_TO"][p]) :
                edges["RELATES_TO"][p][i].strength > plasticity.prune_threshold

(***************************************************************************)
(* SpecStrength: links are created at every accepted strength and          *)
(* strengthened and weakened with default and explicit amounts, under the  *)
(* three configurations; ret records what each call was given and read.    *)
(***************************************************************************)
InitStrength == \E cfg \in PlastConfigs : Fresh(cfg, TRUE)

NextStrength ==
    \/ CreateMemory(PlastMemPool, "open", NONE)
    \/ \E p \in PlastPairs, s \in PlastStrengths :
          LinkMemories(p[1], p[2], s, "", NONE, FALSE)
    \/ \E p \in PlastPairs, a \in PlastAmounts : StrengthenMemoryLink(p[1], p[2], a)
    \/ \E p \in PlastPairs, a \in PlastAmounts : WeakenMemoryLink(p[1], p[2], a)

SpecStrength == InitStrength /\ [][NextStrength]_vars

(***************************************************************************)
(* Claims about connection strengths                                       *)
(***************************************************************************)
\* P holds of the strength of every Memory->Memory edge.
EveryStrength(P(_)) ==
    \A p \in DOMAIN edges["RELATES_TO"] :
        \A i \in 1..Len(edges["RELATES_TO"][p]) : P(edges["RELATES_TO"][p][i].strength)
SomeStrength(P(_)) ==
    \E p \in DOMAIN edges["RELATES_TO"] :
        \E i \in 1..Len(edges["RELATES_TO"][p]) : P(edges["RELATES_TO"][p][i].strength)

\* C4: under a fixed configuration, in every reachable state every Memory->Memory
\* edge strength s satisfies min_strength <= s <= max_strength.
C4_StrengthWithinConfiguredBounds ==
    EveryStrength(LAMBDA x : plasticity.min_strength <= x /\ x <= plasticity.max_strength)

\* C5: with min_strength and max_strength inside [0,1], every Memory->Memory edge
\* strength is in [0,1] after any sequence of link, strengthen, weaken, decay, hebbian
\* and maintenance calls and retrieval side-effects.
C5_StrengthInUnitInterval ==
    (0 <= plasticity.min_strength /\ plasticity.max_strength <= Unit) =>
        EveryStrength(LAMBDA x : 0 <= x /\ x <= Unit)

\* A retrieval has just run its side-effects and an edge sits at the top of [0,1].
C5_Witness ==
    /\ ret.op = "get_memory"
    /\ ret.val # NoNum
    /\ plasticity.retrieval_strengthens
    /\ plasticity.learning_rate > 0
    /\ SomeStrength(LAMBDA x : x = Unit)

\* The strength of the single edge from a to b.
StrengthOf(a, b) == edges["RELATES_TO"][<<a, b>>][1].strength

\* C6: for an existing edge a->b of strength s and a supplied amount, strengthen leaves
\* min(max_strength, s + amount*learning_rate) and weaken leaves
\* max(min_strength, s - amount*learning_rate); with amount*learning_rate <= 0 the
\* strength is unchanged.  An edge above max_strength ends at max_strength.
C6_StrengthenWeakenFormula ==
    (ret.op \in {"strengthen_memory_link", "weaken_memory_link"}
        /\ ret.current # NoNum /\ ret.args[3] # NoNum) =>
        LET s == ret.current[1]
            eff == (ret.args[3][1] * plasticity.learning_rate) \div Unit
            now == StrengthOf(ret.args[1], ret.args[2])
        IN  /\ eff <= 0 => now = s
            /\ (eff > 0 /\ ret.op = "strengthen_memory_link") =>
                  now = Min(plasticity.max_strength, s + eff)
            /\ (eff > 0 /\ ret.op = "weaken_memory_link") =>
                  now = Max(plasticity.min_strength, s - eff)

\* A strengthen with a positive explicit amount has just brought an edge that was
\* above max_strength down to max_strength.
C6_Witness ==
    /\ ret.op = "strengthen_memory_link"
    /\ ret.current # NoNum
    /\ ret.args[3] # NoNum
    /\ ret.current[1] > plasticity.max_strength
    /\ ret.args[3][1] * plasticity.learning_rate > 0
    /\ StrengthOf(ret.args[1], ret.args[2]) = plasticity.max_strength

PlasticityOps ==
    {"strengthen_memory_link", "weaken_memory_link", "apply_hebbian_learning",
     "decay_weak_connections", "run_maintenance_cycle", "get_memory"}

\* C7: with learning_rate = 0, a call of strengthen_memory_link, weaken_memory_link,
\* apply_hebbian_learning, decay_weak_connections, run_maintenance_cycle or a
\* retrieval, with any arguments, leaves every existing Memory->Memory edge in
\* place with its strength unchanged.
C7_ZeroLearningRateFreezesStrengths ==
    [][(plasticity.learning_rate = 0 /\ ret'.op \in PlasticityOps) =>
          \A p \in DOMAIN edges["RELATES_TO"] :
              /\ p \in DOMAIN edges'["RELATES_TO"]
              /\ Len(edges'["RELATES_TO"][p]) = Len(edges["RELATES_TO"][p])
              /\ \A i \in 1..Len(edges["RELATES_TO"][p]) :
                    edges'["RELATES_TO"][p][i].strength = edges["RELATES_TO"][p][i].strength
      ]_vars

(***************************************************************************)
(* SpecHebb: three memories join and leave a compartment that allows or    *)
(* forbids external connections, some are linked by hand, and Hebbian      *)
(* learning runs on lists of two and three of them.                        *)
(***************************************************************************)
HebbMemPool == <<"m1", "m2", "m3">>
HebbMemIds == ToSet(HebbMemPool)
HebbCompPool == <<"c1">>
HebbLists == {<<"m1", "m2">>, <<"m2", "m1">>, <<"m1", "m3", "m2">>, <<"m3", "m2", "m1">>}
HebbConfig == [FullRangeConfig EXCEPT !.max_strength = 50]

InitHebb == Fresh(HebbConfig, TRUE)

NextHebb ==
    \/ CreateMemory(HebbMemPool, "open", NONE)
    \/ \E a \in BOOLEAN : CreateCompartment(HebbCompPool, "Locked", "open", a, "")
    \/ \E a \in BOOLEAN : UpdateCompartment("c1", NONE, <<a>>)
    \/ \E m \in HebbMemIds : AddMemoryToCompartment(<<m>>, "c1")
    \/ \E m \in HebbMemIds : RemoveMemoryFromCompartment(<<m>>, "c1")
    \/ LinkMemories("m1", "m2", 50, "", NONE, FALSE)
    \/ \E l \in HebbLists, r \in BOOLEAN : ApplyHebbianLearning(l, NoNum, r)

SpecHebb == InitHebb /\ [][NextHebb]_vars

\* No RELATES_TO edge from a to b in the edge tables e.
NoEdge(e, a, b) == <<a, b>> \notin DOMAIN e["RELATES_TO"]

\* C3: when can_form_connection(a, b) is false and there is no edge between a and b,
\* apply_hebbian_learning with respect_compartments = true on a list containing a
\* and b creates neither a->b nor b->a.
C3_HebbianRespectsCompartments ==
    [][(ret'.op = "apply_hebbian_learning" /\ ret'.args[3] = TRUE) =>
          \A a \in ToSet(ret'.args[1]), b \in ToSet(ret'.args[1]) :
              (/\ ~can_form_connection(nodes, edges, a, b)
               /\ NoEdge(edges, a, b)
               /\ NoEdge(edges, b, a))
              => (NoEdge(edges', a, b) /\ NoEdge(edges', b, a))
      ]_vars

\* Hebbian learning with respect_compartments = true has just run on a list that
\* holds two existing memories separated by a compartment that forbids external
\* connections, and there is no edge between them, while it did create the edges of
\* another pair of the list.
C3_Witness ==
    /\ ret.op = "apply_hebbian_learning"
    /\ ret.args[3] = TRUE
    /\ \E a \in ToSet(ret.args[1]), b \in ToSet(ret.args[1]) :
          /\ a \in DOMAIN nodes["Memory"] /\ b \in DOMAIN nodes["Memory"]
          /\ CompartmentsOf(a) # CompartmentsOf(b)
          /\ \E c \in CompartmentsOf(a) \cup CompartmentsOf(b) :
                ~nodes["Compartment"][c].allowExternalConnections
          /\ NoEdge(edges, a, b) /\ NoEdge(edges, b, a)
    /\ \E a \in ToSet(ret.args[1]), b \in ToSet(ret.args[1]) :
          /\ ~NoEdge(edges, a, b)
          /\ edges["RELATES_TO"][<<a, b>>][1].relType = "hebbian"

\* The number of RELATES_TO edges of e between memories of the set ids.
EdgesAmong(e, ids) ==
    Cardinality({<<p, i>> \in UNION {{<<q, j>> : j \in 1..Len(e["RELATES_TO"][q])} :
                                       q \in DOMAIN e["RELATES_TO"]} :
                    p[1] \in ids /\ p[2] \in ids})

\* C11: when apply_hebbian_learning meets two existing memories a and b with no edge
\* in either direction, hebbian_creates_connections is enabled and formation is
\* permitted, it creates a->b and b->a, each one edge with the implicit initial
\* strength (within the configured bounds) and relType "hebbian"; on a list of n
\* distinct, mutually unlinked memories it creates exactly n * (n - 1) edges.
C11_HebbianCreatesBothDirections ==
    [][(/\ ret'.op = "apply_hebbian_learning"
        /\ ret'.exc = NONE
        /\ plasticity.hebbian_creates_connections) =>
          LET memory_ids == ret'.args[1]
              ids == ToSet(memory_ids)
              fresh(a, b) ==
                  /\ a # b
                  /\ a \in DOMAIN nodes["Memory"] /\ b \in DOMAIN nodes["Memory"]
                  /\ NoEdge(edges, a, b) /\ NoEdge(edges, b, a)
                  /\ (ret'.args[3] => can_form_connection(nodes, edges, a, b))
              created ==
                  [strength |-> Min(plasticity.max_strength,
                                    Max(plasticity.min_strength,
                                        plasticity.initial_strength_implicit)),
                   relType |-> "hebbian", permeability |-> "open"]
          IN  /\ \A a \in ids, b \in ids :
                    fresh(a, b) => /\ Rows(edges'["RELATES_TO"], a, b) = <<created>>
                                   /\ Rows(edges'["RELATES_TO"], b, a) = <<created>>
              /\ (/\ Cardinality(ids) = Len(memory_ids)
                  /\ \A a \in ids, b \in ids : a # b => fresh(a, b))
                 => EdgesAmong(edges', ids) = Len(memory_ids) * (Len(memory_ids) - 1)
      ]_vars

\* Hebbian learning has just run on a list of three memories and the six edges
\* between them are the ones it created: implicit initial strength, relType "hebbian".
C11_Witness ==
    /\ ret.op = "apply_hebbian_learning"
    /\ Len(ret.args[1]) = 3
    /\ EdgesAmong(edges, HebbMemIds) = 6
    /\ \A a \in HebbMemIds, b \in HebbMemIds :
          a # b => Rows(edges["RELATES_TO"], a, b) =
                      <<[strength |-> HebbConfig.initial_strength_implicit,
                        relType |-> "hebbian", permeability |-> "open"]>>

(***************************************************************************)
(* Calls of the interning create operations                                *)
(***************************************************************************)
CreateConcept(pool, name, description) ==
    /\ OnOpenClient
    /\ FreshId(pool, "Concept") # NONE
    /\ LET concept == [id |-> FreshId(pool, "Concept"), name |-> name,
                       description |-> description]
           r == create_concept(nodes, concept)
       IN  /\ nodes' = r.nodes
           /\ ret' = Ret("create_concept", <<concept>>, r.val)
    /\ UNCHANGED <<edges, plasticity, active_compartment_id, access_cycle>>

CreateKeyword(pool, term) ==
    /\ OnOpenClient
    /\ FreshId(pool, "Keyword") # NONE
    /\ LET keyword == [id |-> FreshId(pool, "Keyword"), term |-> term]
           r == create_keyword(nodes, keyword)
       IN  /\ nodes' = r.nodes
           /\ ret' = Ret("create_keyword", <<keyword>>, r.val)
    /\ UNCHANGED <<edges, plasticity, active_compartment_id, access_cycle>>

CreateTopic(pool, name, description) ==
    /\ OnOpenClient
    /\ FreshId(pool, "Topic") # NONE
    /\ LET topic == [id |-> FreshId(pool, "Topic"), name |-> name,
                     description |-> description]
           r == create_topic(nodes, topic)
       IN  /\ nodes' = r.nodes
           /\ ret' = Ret("create_topic", <<topic>>, r.val)
    /\ UNCHANGED <<edges, plasticity, active_compartment_id, access_cycle>>

CreateEntity(pool, name, type, description) ==
    /\ OnOpenClient
    /\ FreshId(pool, "Entity") # NONE
    /\ LET entity == [id |-> FreshId(pool, "Entity"), name |-> name, type |-> type,
                      description |-> description, aliases |-> <<>>]
           r == create_entity(nodes, entity)
       IN  /\ nodes' = r.nodes
           /\ ret' = Ret("create_entity", <<entity>>, r.val)
    /\ UNCHANGED <<edges, plasticity, active_compartment_id, access_cycle>>

CreateSource(pool, type, reference, title) ==
    /\ OnOpenClient
    /\ FreshId(pool, "Source") # NONE
    /\ LET source == [id |-> FreshId(pool, "Source"), type |-> type,
                      reference |-> reference, title |-> title, reliability |-> 80]
           r == create_source(nodes, source)
       IN  /\ nodes' = r.nodes
           /\ ret' = Ret("create_source", <<source>>, r.val)
    /\ UNCHANGED <<edges, plasticity, active_compartment_id, access_cycle>>

CreateContext(pool, name, type, description) ==
    /\ OnOpenClient
    /\ FreshId(pool, "Context") # NONE
    /\ LET context == [id |-> FreshId(pool, "Context"), name |-> name, type |-> type,
                       description |-> description, status |-> "active"]
           r == create_context(nodes, context)
       IN  /\ nodes' = r.nodes
           /\ ret' = Ret("create_context", <<context>>, r.val)
    /\ UNCHANGED <<edges, plasticity, active_compartment_id, access_cycle>>

(***************************************************************************)
(* SpecIntern: the seven interning creates are called with equal and       *)
(* different identifying tuples and different other fields, while the      *)
(* store holds fewer than MaxNodes nodes.                                  *)
(***************************************************************************)
MaxNodes == 3

InternPool == <<"n1", "n2", "n3">>
InternDescriptions == {"first", "second"}

NodeCount(n) == Cardinality(UNION {{<<l, k>> : k \in DOMAIN n[l]} : l \in NodeLabels})

\* The ids a create may still draw: none once the store holds MaxNodes nodes.
InternIds == IF NodeCount(nodes) < MaxNodes THEN InternPool ELSE <<>>

InitIntern == Fresh(DefaultConfig, TRUE)

NextIntern ==
    \/ \E name \in {"tla", "tlc"}, d \in InternDescriptions :
          CreateConcept(InternIds, name, d)
    \/ \E term \in {"tla", "tlc"} : CreateKeyword(InternIds, term)
    \/ \E name \in {"tla", "tlc"}, d \in InternDescriptions :
          CreateTopic(InternIds, name, d)
    \/ \E type \in {"tool", "project"}, d \in InternDescriptions :
          CreateEntity(InternIds, "tla", type, d)
    \/ \E type \in {"file", "url"}, t \in InternDescriptions :
          CreateSource(InternIds, type, "spec.tla", t)
    \/ \E type \in {"project", "task"}, d \in InternDescriptions :
          CreateContext(InternIds, "tla", type, d)
    \/ \E name \in {"tla", "tlc"}, d \in InternDescriptions :
          CreateCompartment(InternIds, name, "open", TRUE, d)

SpecIntern == InitIntern /\ [][NextIntern]_vars

(***************************************************************************)
(* Claims about interning                                                  *)
(***************************************************************************)
\* The identifying tuple of each interned label, and the label each create fills.
IdentifyingTuple ==
    [Concept |-> {"name"}, Keyword |-> {"term"}, Topic |-> {"name"},
     Entity |-> {"name", "type"}, Source |-> {"reference", "type"},
     Context |-> {"name", "type"}, Compartment |-> {"name"}]
InternedLabel ==
    [create_concept |-> "Concept", create_keyword |-> "Keyword",
     create_topic |-> "Topic", create_entity |-> "Entity", create_source |-> "Source",
     create_context |-> "Context", create_compartment |-> "Compartment"]

\* The nodes of a label in n that carry the identifying tuple of obj.
SameTuple(n, label, obj) ==
    {k \in DOMAIN n[label] : \A f \in IdentifyingTuple[label] : n[label][k][f] = obj[f]}

\* C8: after any sequence of interning creates at most one node exists per
\* identifying tuple, and a create whose tuple already exists returns the existing
\* node's id, adds no node and changes no field of any node.
C8_InternedCreateIsUnique ==
    /\ [](\A label \in DOMAIN IdentifyingTuple :
            \A i \in DOMAIN nodes[label], j \in DOMAIN nodes[label] :
                (\A f \in IdentifyingTuple[label] : nodes[label][i][f] = nodes[label][j][f])
                    => i = j)
    /\ [][ret'.op \in DOMAIN InternedLabel =>
            LET label == InternedLabel[ret'.op]
                existing == SameTuple(nodes, label, ret'.args[1])
            IN  existing # {} => (ret'.val \in existing /\ nodes' = nodes)
         ]_vars

\* create_entity has just been called with the (name, type) of a stored entity and
\* another description: it returned the stored entity's id, not the new object's, and
\* the stored description is still the old one.
C8_Witness ==
    /\ ret.op = "create_entity"
    /\ ret.val # ret.args[1].id
    /\ ret.val \in DOMAIN nodes["Entity"]
    /\ ret.args[1].id \notin DOMAIN nodes["Entity"]
    /\ nodes["Entity"][ret.val].name = ret.args[1].name
    /\ nodes["Entity"][ret.val].type = ret.args[1].type
    /\ nodes["Entity"][ret.val].description # ret.args[1].description

(***************************************************************************)
(* Preferences (axons/client.py); strengths are exact fractions <<p, q>>,  *)
(* q > 0, in lowest terms                                                  *)
(***************************************************************************)
Abs(x) == IF x < 0 THEN 0 - x ELSE x

RECURSIVE GCD(_, _)
GCD(a, b) == IF b = 0 THEN a ELSE GCD(b, a % b)

\* The fraction p/q, q # 0, in lowest terms with a positive denominator.
Frac(p, q) ==
    LET g == GCD(Abs(p), Abs(q))
        sign == IF q < 0 THEN 0 - 1 ELSE 1
    IN  <<(sign * p) \div g, (sign * q) \div g>>

\* (existing.strength * existing.observations + preference.strength) / new_observations
RunningAverage(old, observations, new, new_observations) ==
    Frac(old[1] * observations * new[2] + new[1] * old[2],
         old[2] * new[2] * new_observations)

\* Returns [nodes, val, exc]; exc is "ZeroDivisionError" when new_observations is 0.
create_preference(n, preference) ==
    LET result == Lookup(n, "Preference", {"category", "preference"}, preference)
    IN  IF result # {}
        THEN LET id == CHOOSE k \in result : TRUE
                 existing == n["Preference"][id]
                 new_observations == existing.observations + 1
             IN  IF new_observations = 0
                 THEN [nodes |-> n, val |-> NONE, exc |-> "ZeroDivisionError"]
                 ELSE [nodes |-> [n EXCEPT !["Preference"][id].observations =
                                               new_observations,
                                           !["Preference"][id].strength =
                                               RunningAverage(existing.strength,
                                                              existing.observations,
                                                              preference.strength,
                                                              new_observations)],
                       val |-> id, exc |-> NONE]
        ELSE [nodes |-> InsertNode(n, "Preference", preference.id, RowOf(preference)),
              val |-> preference.id, exc |-> NONE]

\* Preference.__post_init__ accepts a strength in [-1, 1] and any observations.
\* observations is unbounded in the code; the model stops merging at max_observations.
CreatePreference(pool, category, preference, strength, observations, max_observations) ==
    /\ OnOpenClient
    /\ FreshId(pool, "Preference") # NONE
    /\ _validate_range(strength[1], 0 - strength[2], strength[2])
    /\ \A k \in DOMAIN nodes["Preference"] :
          nodes["Preference"][k].observations < max_observations
    /\ LET obj == [id |-> FreshId(pool, "Preference"), category |-> category,
                   preference |-> preference, strength |-> strength,
                   observations |-> observations]
           r == create_preference(nodes, obj)
       IN  /\ nodes' = r.nodes
           /\ ret' = IF r.exc # NONE THEN Raised("create_preference", <<obj>>, r.exc)
                      ELSE Ret("create_preference", <<obj>>, r.val)
    /\ UNCHANGED <<edges, plasticity, active_compartment_id, access_cycle>>

(***************************************************************************)
(* SpecPref: preferences are created and observed again with strengths     *)
(* from [-1, 1] and with the observation counts the constructor accepts.   *)
(***************************************************************************)
MaxObservations == 4

PrefPool == <<"p1", "p2", "p3">>
PrefStrengths == {<<0 - 1, 1>>, <<3, 5>>, <<1, 1>>}
PrefObservations == {1, 0 - 1, 0 - 3}

InitPref == Fresh(DefaultConfig, TRUE)

NextPref ==
    \E p \in {"concise", "verbose"}, s \in PrefStrengths, o \in PrefObservations :
        CreatePreference(PrefPool, "style", p, s, o, MaxObservations)

SpecPref == InitPref /\ [][NextPref]_vars

\* C9: create_preference for an existing (category, preference) creates no node,
\* returns the existing id, adds exactly 1 to observations and sets strength to
\* (old_strength * old_observations + new_strength) / (old_observations + 1); after
\* any number of merges the stored strength is in [-1, 1].
C9_PreferenceRunningAverage ==
    /\ [][ret'.op = "create_preference" =>
            LET new == ret'.args[1]
                existing == {k \in DOMAIN nodes["Preference"] :
                                /\ nodes["Preference"][k].category = new.category
                                /\ nodes["Preference"][k].preference = new.preference}
            IN  \A k \in existing :
                    LET old == nodes["Preference"][k]
                        now == nodes'["Preference"][k]
                    IN  /\ DOMAIN nodes'["Preference"] = DOMAIN nodes["Preference"]
                        /\ ret'.exc = NONE
                        /\ ret'.val = k
                        /\ now.observations = old.observations + 1
                        /\ now.strength[1] * old.strength[2] * new.strength[2]
                                * (old.observations + 1)
                           = now.strength[2]
                                * (old.strength[1] * old.observations * new.strength[2]
                                   + new.strength[1] * old.strength[2])
         ]_vars
    /\ [](\A k \in DOMAIN nodes["Preference"] :
            LET s == nodes["Preference"][k].strength
            IN  0 - s[2] <= s[1] /\ s[1] <= s[2])

(***************************************************************************)
(* Relationship operations (axons/client.py)                               *)
(***************************************************************************)
\* MATCH (a:from_label), (b:to_label) WHERE a.id = from_id AND b.id = to_id
\* MERGE (a)-[r:rel]->(b) ON CREATE SET r = props; the new edges.
MatchMerge(n, e, rel, from_label, from_id, to_label, to_id, props) ==
    IF Exists(n, from_label, from_id) /\ Exists(n, to_label, to_id)
    THEN [e EXCEPT ![rel] = MergeEdge(@, from_id, to_id, props)]
    ELSE e

NoProps == [none |-> NONE]

\* Every link operation returns [edges, exc]; exc is "ValueError" when a numeric
\* property is out of range.
Wrote(e) == [edges |-> e, exc |-> NONE]
Refused(e) == [edges |-> e, exc |-> "ValueError"]

link_memory_to_concept(n, e, memory_id, concept_id, relevance) ==
    IF ~_validate_range(relevance, 0, Unit) THEN Refused(e)
    ELSE Wrote(MatchMerge(n, e, "HAS_CONCEPT", "Memory", memory_id, "Concept", concept_id,
                          [relevance |-> relevance]))

link_memory_to_keyword(n, e, memory_id, keyword_id) ==
    Wrote(MatchMerge(n, e, "HAS_KEYWORD", "Memory", memory_id, "Keyword", keyword_id, NoProps))

link_memory_to_topic(n, e, memory_id, topic_id, primary) ==
    Wrote(MatchMerge(n, e, "BELONGS_TO", "Memory", memory_id, "Topic", topic_id,
                     [isPrimary |-> primary]))

link_memory_to_entity(n, e, memory_id, entity_id, role) ==
    Wrote(MatchMerge(n, e, "MENTIONS", "Memory", memory_id, "Entity", entity_id,
                     [role |-> role]))

link_memory_to_source(n, e, memory_id, source_id, excerpt) ==
    Wrote(MatchMerge(n, e, "FROM_SOURCE", "Memory", memory_id, "Source", source_id,
                     [excerpt |-> excerpt]))

link_memory_to_context(n, e, memory_id, context_id) ==
    Wrote(MatchMerge(n, e, "IN_CONTEXT", "Memory", memory_id, "Context", context_id, NoProps))

link_memory_to_decision(n, e, memory_id, decision_id) ==
    Wrote(MatchMerge(n, e, "INFORMED", "Memory", memory_id, "Decision", decision_id, NoProps))

link_memory_to_question(n, e, memory_id, question_id, completeness) ==
    IF ~_validate_range(completeness, 0, Unit) THEN Refused(e)
    ELSE Wrote(MatchMerge(n, e, "PARTIALLY_ANSWERS", "Memory", memory_id,
                          "Question", question_id, [completeness |-> completeness]))

link_memory_to_goal(n, e, memory_id, goal_id, strength) ==
    IF ~_validate_range(strength, 0, Unit) THEN Refused(e)
    ELSE Wrote(MatchMerge(n, e, "SUPPORTS", "Memory", memory_id, "Goal", goal_id,
                          [strength |-> strength]))

link_memory_to_preference(n, e, memory_id, preference_id) ==
    Wrote(MatchMerge(n, e, "REVEALS", "Memory", memory_id, "Preference", preference_id,
                     NoProps))

link_memory_to_temporal(n, e, memory_id, temporal_id) ==
    Wrote(MatchMerge(n, e, "OCCURRED_DURING", "Memory", memory_id,
                     "TemporalMarker", temporal_id, NoProps))

link_concepts(n, e, concept_id_1, concept_id_2, rel_type) ==
    Wrote(MatchMerge(n, e, "CONCEPT_RELATED_TO", "Concept", concept_id_1,
                     "Concept", concept_id_2, [relType |-> rel_type]))

link_goals(n, e, goal_id_1, goal_id_2) ==
    Wrote(MatchMerge(n, e, "DEPENDS_ON", "Goal", goal_id_1, "Goal", goal_id_2, NoProps))

link_decisions(n, e, decision_id_1, decision_id_2) ==
    Wrote(MatchMerge(n, e, "LED_TO", "Decision", decision_id_1, "Decision", decision_id_2,
                     NoProps))

\* The edge runs from the child to the parent.
link_contexts(n, e, parent_id, child_id) ==
    Wrote(MatchMerge(n, e, "PART_OF", "Context", child_id, "Context", parent_id, NoProps))

\* query1, then query2 on its result.
mark_contradiction(n, e, contradiction_id, memory_id_1, memory_id_2) ==
    LET e1 == MatchMerge(n, e, "CONFLICTS_WITH", "Contradiction", contradiction_id,
                         "Memory", memory_id_1, NoProps)
    IN  Wrote(MatchMerge(n, e1, "CONFLICTS_WITH", "Contradiction", contradiction_id,
                         "Memory", memory_id_2, NoProps))

\* CREATE (x:label {...}) without a lookup.
create_decision(n, decision) == InsertNode(n, "Decision", decision.id, RowOf(decision))
create_goal(n, goal) == InsertNode(n, "Goal", goal.id, RowOf(goal))
create_question(n, question) == InsertNode(n, "Question", question.id, RowOf(question))
create_temporal_marker(n, marker) == InsertNode(n, "TemporalMarker", marker.id, RowOf(marker))
create_contradiction(n, contradiction) ==
    InsertNode(n, "Contradiction", contradiction.id, RowOf(contradiction))

(***************************************************************************)
(* Calls of the relationship operations                                    *)
(***************************************************************************)
\* The number of edges in the store.
EdgeCount(e) ==
    Cardinality(UNION {UNION {{<<r, p, i>> : i \in 1..Len(e[r][p])} : p \in DOMAIN e[r]} :
                       r \in RelTables})

\* The relationship operations are called while the store holds fewer edges.
MaxEdges == 2

\* The call op(args) with result r = [edges, exc] has been made.
Link(op, args, r) ==
    /\ OnOpenClient
    /\ EdgeCount(edges) < MaxEdges
    /\ edges' = r.edges
    /\ ret' = IF r.exc # NONE THEN Raised(op, args, r.exc) ELSE Ret(op, args, NONE)
    /\ UNCHANGED <<nodes, plasticity, active_compartment_id, access_cycle>>

LinkMemoryToConcept(memory_id, concept_id, relevance) ==
    /\ Link("link_memory_to_concept", <<memory_id, concept_id, relevance>>,
            link_memory_to_concept(nodes, edges, memory_id, concept_id, relevance))

LinkMemoryToKeyword(memory_id, keyword_id) ==
    /\ Link("link_memory_to_keyword", <<memory_id, keyword_id>>,
            link_memory_to_keyword(nodes, edges, memory_id, keyword_id))

LinkMemoryToTopic(memory_id, topic_id, primary) ==
    /\ Link("link_memory_to_topic", <<memory_id, topic_id>>,
            link_memory_to_topic(nodes, edges, memory_id, topic_id, primary))

LinkMemoryToEntity(memory_id, entity_id, role) ==
    /\ Link("link_memory_to_entity", <<memory_id, entity_id>>,
            link_memory_to_entity(nodes, edges, memory_id, entity_id, role))

LinkMemoryToSource(memory_id, source_id, excerpt) ==
    /\ Link("link_memory_to_source", <<memory_id, source_id>>,
            link_memory_to_source(nodes, edges, memory_id, source_id, excerpt))

LinkMemoryToContext(memory_id, context_id) ==
    /\ Link("link_memory_to_context", <<memory_id, context_id>>,
            link_memory_to_context(nodes, edges, memory_id, context_id))

LinkMemoryToDecision(memory_id, decision_id) ==
    /\ Link("link_memory_to_decision", <<memory_id, decision_id>>,
            link_memory_to_decision(nodes, edges, memory_id, decision_id))

LinkMemoryToQuestion(memory_id, question_id, completeness) ==
    /\ Link("link_memory_to_question", <<memory_id, question_id, completeness>>,
            link_memory_to_question(nodes, edges, memory_id, question_id, completeness))

LinkMemoryToGoal(memory_id, goal_id, strength) ==
    /\ Link("link_memory_to_goal", <<memory_id, goal_id, strength>>,
            link_memory_to_goal(nodes, edges, memory_id, goal_id, strength))

LinkMemoryToPreference(memory_id, preference_id) ==
    /\ Link("link_memory_to_preference", <<memory_id, preference_id>>,
            link_memory_to_preference(nodes, edges, memory_id, preference_id))

LinkMemoryToTemporal(memory_id, temporal_id) ==
    /\ Link("link_memory_to_temporal", <<memory_id, temporal_id>>,
            link_memory_to_temporal(nodes, edges, memory_id, temporal_id))

LinkConcepts(concept_id_1, concept_id_2, rel_type) ==
    /\ Link("link_concepts", <<concept_id_1, concept_id_2>>,
            link_concepts(nodes, edges, concept_id_1, concept_id_2, rel_type))

LinkGoals(goal_id_1, goal_id_2) ==
    /\ Link("link_goals", <<goal_id_1, goal_id_2>>,
            link_goals(nodes, edges, goal_id_1, goal_id_2))

LinkDecisions(decision_id_1, decision_id_2) ==
    /\ Link("link_decisions", <<decision_id_1, decision_id_2>>,
            link_decisions(nodes, edges, decision_id_1, decision_id_2))

LinkContexts(parent_id, child_id) ==
    /\ Link("link_contexts", <<parent_id, child_id>>,
            link_contexts(nodes, edges, parent_id, child_id))

MarkContradiction(contradiction_id, memory_id_1, memory_id_2) ==
    /\ Link("mark_contradiction", <<contradiction_id, memory_id_1, memory_id_2>>,
            mark_contradiction(nodes, edges, contradiction_id, memory_id_1, memory_id_2))

(***************************************************************************)
(* SpecLink: every relationship operation is called, on nodes that exist   *)
(* and on ids that do not, while the store holds fewer than MaxEdges       *)
(* edges.  The initial store is the one left by the create calls of        *)
(* LinkSeed on a new client (one table per label: the creates of           *)
(* different labels do not read each other's tables).                      *)
(***************************************************************************)
LinkSeed ==
    LET memories ==
            create_memory(
                create_memory(EmptyNodes, EmptyEdges,
                    [id |-> "m1", permeability |-> "open", accessCount |-> 0], "").nodes,
                EmptyEdges, [id |-> "m2", permeability |-> "open", accessCount |-> 0],
                "").nodes
        concepts ==
            create_concept(
                create_concept(EmptyNodes,
                    [id |-> "c1", name |-> "graphs", description |-> ""]).nodes,
                [id |-> "c2", name |-> "logic", description |-> ""]).nodes
        keywords == create_keyword(EmptyNodes, [id |-> "k1", term |-> "merge"]).nodes
        topics ==
            create_topic(EmptyNodes,
                [id |-> "t1", name |-> "storage", description |-> ""]).nodes
        entities ==
            create_entity(EmptyNodes,
                [id |-> "e1", name |-> "kuzu", type |-> "technology",
                 description |-> "", aliases |-> <<>>]).nodes
        sources ==
            create_source(EmptyNodes,
                [id |-> "s1", type |-> "file", reference |-> "notes.md",
                 title |-> "", reliability |-> 80]).nodes
        contexts ==
            create_context(
                create_context(EmptyNodes,
                    [id |-> "x1", name |-> "work", type |-> "project",
                     description |-> "", status |-> "active"]).nodes,
                [id |-> "x2", name |-> "task", type |-> "task",
                 description |-> "", status |-> "active"]).nodes
        decisions ==
            create_decision(
                create_decision(EmptyNodes,
                    [id |-> "d1", description |-> "adopt", rationale |-> "",
                     outcome |-> "", reversible |-> TRUE]),
                [id |-> "d2", description |-> "extend", rationale |-> "",
                 outcome |-> "", reversible |-> TRUE])
        goals ==
            create_goal(
                create_goal(EmptyNodes,
                    [id |-> "g1", description |-> "ship", status |-> "active",
                     priority |-> 1]),
                [id |-> "g2", description |-> "test", status |-> "active",
                 priority |-> 1])
        questions ==
            create_question(EmptyNodes, [id |-> "q1", text |-> "why", status |-> "open"])
        preferences ==
            create_preference(EmptyNodes,
                [id |-> "p1", category |-> "style", preference |-> "concise",
                 strength |-> <<1, 2>>, observations |-> 1]).nodes
        markers ==
            create_temporal_marker(EmptyNodes,
                [id |-> "w1", type |-> "period", description |-> "sprint"])
        contradictions ==
            create_contradiction(EmptyNodes,
                [id |-> "z1", description |-> "clash", resolution |-> "",
                 status |-> "unresolved"])
        made == [Memory |-> memories, Concept |-> concepts, Keyword |-> keywords,
                 Topic |-> topics, Entity |-> entities, Source |-> sources,
                 Context |-> contexts, Decision |-> decisions, Goal |-> goals,
                 Question |-> questions, Preference |-> preferences,
                 TemporalMarker |-> markers, Contradiction |-> contradictions,
                 Compartment |-> EmptyNodes]
    IN  [l \in NodeLabels |-> made[l][l]]

\* The ids a call may name: those of the seeded nodes and, for the second end, one
\* that no node has.
LinkIds ==
    [Memory |-> {"m1", "m2"}, Concept |-> {"c1", "c2", "absent"},
     Keyword |-> {"k1", "absent"}, Topic |-> {"t1", "absent"}, Entity |-> {"e1", "absent"},
     Source |-> {"s1", "absent"}, Context |-> {"x1", "x2", "absent"},
     Decision |-> {"d1", "d2", "absent"}, Goal |-> {"g1", "g2", "absent"},
     Question |-> {"q1", "absent"}, Preference |-> {"p1", "absent"},
     TemporalMarker |-> {"w1", "absent"}, Contradiction |-> {"z1", "absent"}]

\* Once the store holds MaxEdges edges, link_memories is called on absent ids only.
Named(id) == IF EdgeCount(edges) < MaxEdges THEN id ELSE "absent"

LinkRelevances == {50, Unit, Unit + 50}

InitLink ==
    /\ nodes = LinkSeed
    /\ edges = EmptyEdges
    /\ plasticity = DefaultConfig
    /\ active_compartment_id = NONE
    /\ access_cycle = 0
    /\ _closed = FALSE
    /\ calls = NoCalls
    /\ ret = [op |-> "init", args |-> <<>>, val |-> NONE, exc |-> NONE, detail |-> TRUE]

NextLink ==
    \/ \E a \in LinkIds.Memory, b \in LinkIds.Concept, relevance \in LinkRelevances :
          LinkMemoryToConcept(a, b, relevance)
    \/ \E a \in LinkIds.Memory, b \in LinkIds.Keyword : LinkMemoryToKeyword(a, b)
    \/ \E a \in LinkIds.Memory, b \in LinkIds.Topic, primary \in BOOLEAN :
          LinkMemoryToTopic(a, b, primary)
    \/ \E a \in LinkIds.Memory, b \in LinkIds.Entity, role \in {"", "author"} :
          LinkMemoryToEntity(a, b, role)
    \/ \E a \in LinkIds.Memory, b \in LinkIds.Source, excerpt \in {"", "p. 3"} :
          LinkMemoryToSource(a, b, excerpt)
    \/ \E a \in LinkIds.Memory, b \in LinkIds.Context : LinkMemoryToContext(a, b)
    \/ \E a \in LinkIds.Memory, b \in LinkIds.Decision : LinkMemoryToDecision(a, b)
    \/ \E a \in LinkIds.Memory, b \in LinkIds.Question, completeness \in {50, Unit} :
          LinkMemoryToQuestion(a, b, completeness)
    \/ \E a \in LinkIds.Memory, b \in LinkIds.Goal, strength \in {50, Unit} :
          LinkMemoryToGoal(a, b, strength)
    \/ \E a \in LinkIds.Memory, b \in LinkIds.Preference : LinkMemoryToPreference(a, b)
    \/ \E a \in LinkIds.Memory, b \in LinkIds.TemporalMarker :
          LinkMemoryToTemporal(a, b)
    \/ \E a \in LinkIds.Memory, b \in LinkIds.Memory, strength \in {50, Unit}, check_compartments \in BOOLEAN :
          LinkMemories(Named(a), Named(b), strength, "", NONE, check_compartments)
    \/ \E a \in LinkIds.Concept, b \in LinkIds.Concept, rel_type \in {"", "implies"} :
          LinkConcepts(a, b, rel_type)
    \/ \E a \in LinkIds.Goal, b \in LinkIds.Goal : LinkGoals(a, b)
    \/ \E a \in LinkIds.Decision, b \in LinkIds.Decision : LinkDecisions(a, b)
    \/ \E a \in LinkIds.Context, b \in LinkIds.Context : LinkContexts(a, b)
    \/ \E c \in LinkIds.Contradiction, a \in LinkIds.Memory, b \in LinkIds.Memory :
          MarkContradiction(c, a, b)

SpecLink == InitLink /\ [][NextLink]_vars

\* The relation a link operation writes and the labels of the edge's two ends.
LinkTarget ==
    [link_memory_to_concept |-> <<"HAS_CONCEPT", "Memory", "Concept">>,
     link_memory_to_keyword |-> <<"HAS_KEYWORD", "Memory", "Keyword">>,
     link_memory_to_topic |-> <<"BELONGS_TO", "Memory", "Topic">>,
     link_memory_to_entity |-> <<"MENTIONS", "Memory", "Entity">>,
     link_memory_to_source |-> <<"FROM_SOURCE", "Memory", "Source">>,
     link_memory_to_context |-> <<"IN_CONTEXT", "Memory", "Context">>,
     link_memory_to_decision |-> <<"INFORMED", "Memory", "Decision">>,
     link_memory_to_question |-> <<"PARTIALLY_ANSWERS", "Memory", "Question">>,
     link_memory_to_goal |-> <<"SUPPORTS", "Memory", "Goal">>,
     link_memory_to_preference |-> <<"REVEALS", "Memory", "Preference">>,
     link_memory_to_temporal |-> <<"OCCURRED_DURING", "Memory", "TemporalMarker">>,
     link_memories |-> <<"RELATES_TO", "Memory", "Memory">>,
     link_concepts |-> <<"CONCEPT_RELATED_TO", "Concept", "Concept">>,
     link_goals |-> <<"DEPENDS_ON", "Goal", "Goal">>,
     link_decisions |-> <<"LED_TO", "Decision", "Decision">>,
     link_contexts |-> <<"PART_OF", "Context", "Context">>,
     mark_contradiction |-> <<"CONFLICTS_WITH", "Contradiction", "Memory">>]

\* The ordered pairs (from, to) the call r links.
LinkedPairs(r) ==
    IF r.op = "link_contexts" THEN {<<r.args[2], r.args[1]>>}
    ELSE IF r.op = "mark_contradiction"
    THEN {<<r.args[1], r.args[2]>>, <<r.args[1], r.args[3]>>}
    ELSE {<<r.args[1], r.args[2]>>}

\* C10: after a link operation has been called on an ordered pair of existing nodes,
\* for the first time or again, exactly one edge of its relation joins the pair, and
\* no pair of any relation ever holds more than one edge.
C10_LinkingTwiceLeavesOneEdge ==
    /\ [][(ret'.op \in DOMAIN LinkTarget /\ ret'.exc = NONE) =>
            LET t == LinkTarget[ret'.op]
            IN  \A p \in LinkedPairs(ret') :
                    (Exists(nodes, t[2], p[1]) /\ Exists(nodes, t[3], p[2]))
                        => Len(Rows(edges'[t[1]], p[1], p[2])) = 1
         ]_vars
    /\ [](\A r \in RelTables : \A p \in DOMAIN edges[r] : Len(edges[r][p]) = 1)

\* link_memory_to_concept(m1, c1, relevance=1.0) was called on a pair that was
\* already linked with relevance 0.5, and the one edge between m1 and c1 is the old one.
C10_Witness ==
    /\ ret.op = "link_memory_to_concept"
    /\ ret.args = <<"m1", "c1", Unit>>
    /\ Rows(edges["HAS_CONCEPT"], "m1", "c1") = <<[relevance |-> 50]>>

(***************************************************************************)
(* SpecPrune: on the seeded store, memories are linked to each other at    *)
(* strengths around the pruning thresholds and to concepts and             *)
(* contradictions, and the store is decayed, pruned and cycled.            *)
(***************************************************************************)
PruneStrengths == {0, 25, 50}
PruneThresholds == {NoNum, Some(0), Some(25)}

InitPrune ==
    /\ nodes = LinkSeed
    /\ edges = EmptyEdges
    /\ plasticity = FullRangeConfig
    /\ active_compartment_id = NONE
    /\ access_cycle = 0
    /\ _closed = FALSE
    /\ calls = NoCalls
    /\ ret = [op |-> "init", args |-> <<>>, val |-> NONE, exc |-> NONE, detail |-> TRUE]

NextPrune ==
    \/ \E p \in PlastPairs, s \in PruneStrengths : LinkMemories(p[1], p[2], s, "", NONE, FALSE)
    \/ \E a \in LinkIds.Memory : LinkMemoryToConcept(a, "c1", 0)
    \/ \E a \in LinkIds.Memory : MarkContradiction("z1", a, a)
    \/ \E d \in {NoNum, Some(25)} : DecayWeakConnections(Some(Unit), d)
    \/ \E m \in PruneThresholds : PruneDeadConnections(m)
    \/ RunMaintenanceCycle(MaxCycles)

SpecPrune == InitPrune /\ [][NextPrune]_vars

\* The edges of every relation but RELATES_TO.
OtherEdges(e) == [r \in RelTables \ {"RELATES_TO"} |-> e[r]]

\* C14: prune_dead_connections(t) deletes exactly the Memory->Memory edges whose
\* strength is at most t (prune_threshold when t is omitted) and changes no surviving
\* edge; neither it nor decay_weak_connections nor run_maintenance_cycle deletes or
\* changes a node or an edge of another relation, and they add no Memory->Memory edge.
C14_PruneDeletesExactlyDeadEdges ==
    /\ [][ret'.op = "prune_dead_connections" =>
            LET t == IF IsNone(ret'.args[1]) THEN plasticity.prune_threshold
                     ELSE Val(ret'.args[1])
                old == edges["RELATES_TO"]
                new == edges'["RELATES_TO"]
            IN  \A p \in DOMAIN old \cup DOMAIN new :
                    Rows(new, p[1], p[2]) =
                        SelectSeq(Rows(old, p[1], p[2]), LAMBDA r : r.strength > t)
         ]_observed
    /\ [][ret'.op \in {"prune_dead_connections", "decay_weak_connections",
                       "run_maintenance_cycle"} =>
            /\ nodes' = nodes
            /\ OtherEdges(edges') = OtherEdges(edges)
            /\ DOMAIN edges'["RELATES_TO"] \subseteq DOMAIN edges["RELATES_TO"]
         ]_observed

\* prune_dead_connections(0.25) has just run: m2 -> m1 at 0.5 survived it, no edge
\* m1 -> m2 is left, and the concept and contradiction edges of m1 are in place.
C14_Witness ==
    /\ ret.op = "prune_dead_connections"
    /\ ret.args = <<Some(25)>>
    /\ DOMAIN edges["RELATES_TO"] = {<<"m2", "m1">>}
    /\ edges["RELATES_TO"][<<"m2", "m1">>][1].strength = 50
    /\ <<"m1", "c1">> \in DOMAIN edges["HAS_CONCEPT"]
    /\ <<"z1", "m1">> \in DOMAIN edges["CONFLICTS_WITH"]

(***************************************************************************)
(* get_related_memories (axons/client.py) and its permeability filter      *)
(* (axons/permeability.py).  A query result is the sequence of the ids of  *)
(* its rows.  LIMIT without ORDER BY lets the engine choose which rows     *)
(* come back and in what order: scan is the order in which the engine      *)
(* visits the memories, one for each of the two queries.                   *)
(***************************************************************************)
Take(s, k) == SubSeq(s, 1, Min(Max(k, 0), Len(s)))

\* A variant that does not look at the requester.
_filter_by_permeability_without_requester(n, e, requester_memory_id, results) ==
    SelectSeq(results,
        LAMBDA rid :
            LET src_perm == get_memory_permeability(n, rid)
                src_comps == get_memory_compartments(n, e, rid)
            IN  /\ ~(src_perm # NONE /\ src_perm # "" /\ ~allows_outward(src_perm))
                /\ \A c \in src_comps : allows_outward(n["Compartment"][c].permeability))

\* A variant that does not look at the compartments of the results.
_filter_by_permeability_ignoring_source_compartments(n, e, requester_memory_id, results) ==
    IF results = <<>> THEN results
    ELSE LET req_perm == get_memory_permeability(n, requester_memory_id)
             req_comps == get_memory_compartments(n, e, requester_memory_id)
         IN  IF req_perm # NONE /\ req_perm # "" /\ ~allows_inward(req_perm) THEN <<>>
             ELSE IF \E c \in req_comps : ~allows_inward(n["Compartment"][c].permeability)
             THEN <<>>
             ELSE SelectSeq(results,
                      LAMBDA rid :
                          LET src_perm == get_memory_permeability(n, rid)
                          IN  ~(src_perm # NONE /\ src_perm # ""
                                /\ ~allows_outward(src_perm)))

_filter_by_permeability(n, e, requester_memory_id, results) ==
    IF results = <<>> THEN results
    ELSE LET req_perm == get_memory_permeability(n, requester_memory_id)
             req_comps == get_memory_compartments(n, e, requester_memory_id)
         IN  IF req_perm # NONE /\ req_perm # "" /\ ~allows_inward(req_perm) THEN <<>>
             ELSE IF \E c \in req_comps : ~allows_inward(n["Compartment"][c].permeability)
             THEN <<>>
             ELSE SelectSeq(results,
                      LAMBDA rid :
                          LET src_perm == get_memory_permeability(n, rid)
                              src_comps == get_memory_compartments(n, e, rid)
                          IN  /\ ~(src_perm # NONE /\ src_perm # ""
                                   /\ ~allows_outward(src_perm))
                              /\ \A c \in src_comps :
                                     allows_outward(n["Compartment"][c].permeability))

\* (m)-[rel]->(x)<-[rel]-(related): the two memories have an edge rel to one node.
SharesVia(e, rel, memory_id, related) ==
    \E p \in DOMAIN e[rel], q \in DOMAIN e[rel] :
        p[1] = memory_id /\ q[1] = related /\ p[2] = q[2]

\* MATCH (m:Memory {id})-[rel]->()<-[rel]-(related:Memory) WHERE related.id <> $id
\* RETURN DISTINCT related.id LIMIT $limit
RelatedVia(n, e, rel, memory_id, limit, scan) ==
    Take(SelectSeq(scan,
             LAMBDA related :
                 /\ Exists(n, "Memory", memory_id)
                 /\ Exists(n, "Memory", related)
                 /\ related # memory_id
                 /\ SharesVia(e, rel, memory_id, related)),
         limit)

\* A variant that fetches limit rows, not three times as many, before it filters.
get_related_memories_without_overfetch(n, e, memory_id, limit, respect_permeability, scan, scan2) ==
    LET fetch_limit == limit
        results == RelatedVia(n, e, "HAS_CONCEPT", memory_id, fetch_limit, scan)
        remaining == fetch_limit - Len(results)
        keyword_results == RelatedVia(n, e, "HAS_KEYWORD", memory_id, remaining, scan2)
        merged == IF Len(results) < fetch_limit
                  THEN results \o SelectSeq(keyword_results,
                                            LAMBDA rid : rid \notin ToSet(results))
                  ELSE results
        filtered == IF respect_permeability
                    THEN _filter_by_permeability(n, e, memory_id, merged)
                    ELSE merged
    IN  Take(filtered, limit)

get_related_memories(n, e, memory_id, limit, respect_permeability, scan, scan2) ==
    LET fetch_limit == IF respect_permeability THEN limit * 3 ELSE limit
        results == RelatedVia(n, e, "HAS_CONCEPT", memory_id, fetch_limit, scan)
        remaining == fetch_limit - Len(results)
        keyword_results == RelatedVia(n, e, "HAS_KEYWORD", memory_id, remaining, scan2)
        merged == IF Len(results) < fetch_limit
                  THEN results \o SelectSeq(keyword_results,
                                            LAMBDA rid : rid \notin ToSet(results))
                  ELSE results
        filtered == IF respect_permeability
                    THEN _filter_by_permeability(n, e, memory_id, merged)
                    ELSE merged
    IN  Take(filtered, limit)

GetRelatedMemories(memory_id, limit, respect_permeability, scan, scan2) ==
    /\ OnOpenClient
    /\ ret' = Ret("get_related_memories", <<memory_id, limit, respect_permeability>>,
                  get_related_memories(nodes, edges, memory_id, limit,
                                       respect_permeability, scan, scan2))
    /\ UNCHANGED <<nodes, edges, plasticity, active_compartment_id, access_cycle>>

(***************************************************************************)
(* SpecRelated: three memories, some of them tagged with one concept and   *)
(* some with one keyword, and one compartment; memories enter and leave    *)
(* the compartment, permeabilities change, and related memories are        *)
(* queried; the second query visits the memories in the order of the first *)
(* or in the opposite order.                                               *)
(***************************************************************************)
RelatedMemPool == <<"m1", "m2", "m3">>
RelatedMemIds == ToSet(RelatedMemPool)
RelatedScans ==
    {s \in [1..Len(RelatedMemPool) -> RelatedMemIds] :
        \A i, j \in DOMAIN s : i # j => s[i] # s[j]}
RelatedLimits == {1, 2}
RelatedTagged == {{}, {"m1", "m2"}, RelatedMemIds}
RelatedTermed == {{}, {"m1", "m3"}, RelatedMemIds}
Reversed(s) == [i \in DOMAIN s |-> s[Len(s) + 1 - i]]

RECURSIVE RelatedMemories(_)
RelatedMemories(pool) ==
    IF pool = <<>> THEN EmptyNodes
    ELSE create_memory(RelatedMemories(Tail(pool)), EmptyEdges,
                       [id |-> Head(pool), permeability |-> "open", accessCount |-> 0],
                       "").nodes

RelatedSeed ==
    [l \in NodeLabels |->
        CASE l = "Memory" -> RelatedMemories(RelatedMemPool)[l]
          [] l = "Concept" ->
                create_concept(EmptyNodes,
                    [id |-> "c1", name |-> "graphs", description |-> ""]).nodes[l]
          [] l = "Keyword" ->
                create_keyword(EmptyNodes, [id |-> "k1", term |-> "merge"]).nodes[l]
          [] l = "Compartment" ->
                create_compartment(EmptyNodes,
                    [id |-> "b1", name |-> "vault", permeability |-> "open",
                     allowExternalConnections |-> TRUE, description |-> ""]).nodes[l]
          [] OTHER -> EmptyTable]

\* link_memory_to_concept(m, "c1") for the memories of tagged and
\* link_memory_to_keyword(m, "k1") for the memories of termed, in pool order.
RECURSIVE RelatedLinks(_, _, _)
RelatedLinks(pool, tagged, termed) ==
    IF pool = <<>> THEN EmptyEdges
    ELSE LET e0 == RelatedLinks(Tail(pool), tagged, termed)
             e1 == IF Head(pool) \in tagged
                   THEN link_memory_to_concept(RelatedSeed, e0, Head(pool), "c1", Unit).edges
                   ELSE e0
         IN  IF Head(pool) \in termed
             THEN link_memory_to_keyword(RelatedSeed, e1, Head(pool), "k1").edges
             ELSE e1

InitRelated ==
    /\ nodes = RelatedSeed
    /\ \E tagged \in RelatedTagged, termed \in RelatedTermed :
           /\ tagged \cup termed # {}
           /\ edges = RelatedLinks(RelatedMemPool, tagged, termed)
    /\ plasticity = DefaultConfig
    /\ active_compartment_id = NONE
    /\ access_cycle = 0
    /\ _closed = FALSE
    /\ calls = NoCalls
    /\ ret = [op |-> "init", args |-> <<>>, val |-> NONE, exc |-> NONE, detail |-> TRUE]

NextRelated ==
    \/ \E m \in {"m1", "m2"} : AddMemoryToCompartment(<<m>>, "b1")
    \/ \E m \in {"m1", "m2"} : RemoveMemoryFromCompartment(<<m>>, "b1")
    \/ \E p \in Permeabilities : UpdateCompartment("b1", p, <<>>)
    \/ \E p \in {"open", "osmotic_inward"} : SetMemoryPermeability(<<"m3">>, p)
    \/ \E m \in RelatedMemIds, limit \in RelatedLimits, respect_permeability \in BOOLEAN,
          scan \in RelatedScans, backwards \in BOOLEAN :
           GetRelatedMemories(m, limit, respect_permeability, scan,
                              IF backwards THEN Reversed(scan) ELSE scan)

SpecRelated == InitRelated /\ [][NextRelated]_vars

\* The memories that share a concept or a keyword with memory_id.
RelatedTo(e, memory_id) ==
    {r \in RelatedMemIds \ {memory_id} :
        SharesVia(e, "HAS_CONCEPT", memory_id, r) \/ SharesVia(e, "HAS_KEYWORD", memory_id, r)}

\* C15: with respect_permeability = True, every memory r that
\* get_related_memories(id, limit) returns differs from id, shares a concept or a
\* keyword with id and satisfies can_data_flow(r, id); no memory is returned twice and
\* at most limit memories are returned; and when id has at most limit related
\* memories, every one of them that can flow to id is returned.  So a memory inside
\* an OSMOTIC_INWARD compartment sees an outside memory that shares a concept with
\* it, and is never returned to that outside memory.
C15_RelatedMemoriesRespectPermeability ==
    (ret.op = "get_related_memories" /\ ret.args[3]) =>
        LET id == ret.args[1]
            limit == ret.args[2]
            rs == ret.val
            related == RelatedTo(edges, id)
        IN  /\ Len(rs) <= limit
            /\ \A i, j \in DOMAIN rs : i # j => rs[i] # rs[j]
            /\ \A i \in DOMAIN rs :
                   /\ rs[i] # id
                   /\ rs[i] \in related
                   /\ can_data_flow(nodes, edges, rs[i], id, NONE)
            /\ Cardinality(related) <= limit =>
                   \A r \in related :
                       can_data_flow(nodes, edges, r, id, NONE) => r \in ToSet(rs)

\* m1 sits alone in the OSMOTIC_INWARD compartment and shares the concept with m2:
\* the query for m1 has just returned m2, and m1 cannot flow to m2.
C15_Witness ==
    /\ ret.op = "get_related_memories"
    /\ ret.args[1] = "m1" /\ ret.args[3]
    /\ nodes["Compartment"]["b1"].permeability = "osmotic_inward"
    /\ get_memory_compartments(nodes, edges, "m1") = {"b1"}
    /\ get_memory_compartments(nodes, edges, "m2") = {}
    /\ SharesVia(edges, "HAS_CONCEPT", "m1", "m2")
    /\ "m2" \in ToSet(ret.val)
    /\ ~can_data_flow(nodes, edges, "m1", "m2", NONE)

(***************************************************************************)
(* quick_store_memory (axons/client.py).  The transaction is the pair of   *)
(* tables at BEGIN TRANSACTION; the steps write into a working copy st =   *)
(* [nodes, edges, exc], COMMIT keeps the copy and ROLLBACK returns to the  *)
(* tables at the start.  ids gives, for each label, the identifiers the    *)
(* new objects draw (uuid4 in the code).                                   *)
(***************************************************************************)
EntityType == {"person", "organization", "project", "tool", "technology", "place"}

_validate_required_str(value) == value # ""

\* for concept_name in concepts: create_concept, link_memory_to_concept
RECURSIVE StoreConcepts(_, _, _, _)
StoreConcepts(st, ids, memory_id, concepts) ==
    IF concepts = <<>> \/ st.exc # NONE THEN st
    ELSE IF ~_validate_required_str(Head(concepts)) THEN [st EXCEPT !.exc = "ValueError"]
    ELSE LET concept == [id |-> FirstUnused(ids.Concept, DOMAIN st.nodes["Concept"]),
                         name |-> Head(concepts), description |-> ""]
             c == create_concept(st.nodes, concept)
             l == link_memory_to_concept(c.nodes, st.edges, memory_id, c.val, Unit)
         IN  StoreConcepts([nodes |-> c.nodes, edges |-> l.edges, exc |-> l.exc],
                           ids, memory_id, Tail(concepts))

\* for term in keywords: create_keyword, link_memory_to_keyword
RECURSIVE StoreKeywords(_, _, _, _)
StoreKeywords(st, ids, memory_id, keywords) ==
    IF keywords = <<>> \/ st.exc # NONE THEN st
    ELSE IF ~_validate_required_str(Head(keywords)) THEN [st EXCEPT !.exc = "ValueError"]
    ELSE LET keyword == [id |-> FirstUnused(ids.Keyword, DOMAIN st.nodes["Keyword"]),
                         term |-> Head(keywords)]
             k == create_keyword(st.nodes, keyword)
             l == link_memory_to_keyword(k.nodes, st.edges, memory_id, k.val)
         IN  StoreKeywords([nodes |-> k.nodes, edges |-> l.edges, exc |-> l.exc],
                           ids, memory_id, Tail(keywords))

\* for i, topic_name in enumerate(topics): create_topic, link_memory_to_topic with
\* primary = (i == 0)
RECURSIVE StoreTopics(_, _, _, _, _)
StoreTopics(st, ids, memory_id, topics, i) ==
    IF topics = <<>> \/ st.exc # NONE THEN st
    ELSE IF ~_validate_required_str(Head(topics)) THEN [st EXCEPT !.exc = "ValueError"]
    ELSE LET topic == [id |-> FirstUnused(ids.Topic, DOMAIN st.nodes["Topic"]),
                       name |-> Head(topics), description |-> ""]
             t == create_topic(st.nodes, topic)
             l == link_memory_to_topic(t.nodes, st.edges, memory_id, t.val, i = 0)
         IN  StoreTopics([nodes |-> t.nodes, edges |-> l.edges, exc |-> l.exc],
                         ids, memory_id, Tail(topics), i + 1)

\* for name, etype in entities: Entity(name, EntityType(etype)), create_entity,
\* link_memory_to_entity
RECURSIVE StoreEntities(_, _, _, _)
StoreEntities(st, ids, memory_id, entities) ==
    IF entities = <<>> \/ st.exc # NONE THEN st
    ELSE IF Head(entities)[2] \notin EntityType THEN [st EXCEPT !.exc = "ValueError"]
    ELSE IF ~_validate_required_str(Head(entities)[1])
    THEN [st EXCEPT !.exc = "ValueError"]
    ELSE LET entity == [id |-> FirstUnused(ids.Entity, DOMAIN st.nodes["Entity"]),
                        name |-> Head(entities)[1], type |-> Head(entities)[2],
                        description |-> "", aliases |-> <<>>]
             c == create_entity(st.nodes, entity)
             l == link_memory_to_entity(c.nodes, st.edges, memory_id, c.val, "")
         IN  StoreEntities([nodes |-> c.nodes, edges |-> l.edges, exc |-> l.exc],
                           ids, memory_id, Tail(entities))

\* The steps between begin_transaction and commit.
QuickStoreSteps(n, e, ids, concepts, keywords, topics, entities, compartment_id) ==
    LET memory == [id |-> FirstUnused(ids.Memory, DOMAIN n["Memory"]),
                   permeability |-> "open", accessCount |-> 0]
        g == create_memory(n, e, memory, compartment_id)
        s0 == [nodes |-> g.nodes, edges |-> g.edges, exc |-> NONE]
        s1 == StoreConcepts(s0, ids, memory.id, concepts)
        s2 == StoreKeywords(s1, ids, memory.id, keywords)
        s3 == StoreTopics(s2, ids, memory.id, topics, 0)
    IN  StoreEntities(s3, ids, memory.id, entities)

\* A variant whose except branch re-raises without rolling back.
quick_store_memory_without_rollback(n, e, ids, concepts, keywords, topics, entities, compartment_id) ==
    LET st == QuickStoreSteps(n, e, ids, concepts, keywords, topics, entities,
                              compartment_id)
    IN  [nodes |-> st.nodes, edges |-> st.edges, exc |-> st.exc,
         val |-> IF st.exc # NONE THEN NONE
                 ELSE FirstUnused(ids.Memory, DOMAIN n["Memory"])]

\* Returns [nodes, edges, val, exc]: the tables after COMMIT and the new memory's id,
\* or the tables after ROLLBACK and the exception.
quick_store_memory(n, e, ids, concepts, keywords, topics, entities, compartment_id) ==
    LET st == QuickStoreSteps(n, e, ids, concepts, keywords, topics, entities,
                              compartment_id)
    IN  IF st.exc # NONE
        THEN [nodes |-> n, edges |-> e, exc |-> st.exc, val |-> NONE]
        ELSE [nodes |-> st.nodes, edges |-> st.edges, exc |-> NONE,
              val |-> FirstUnused(ids.Memory, DOMAIN n["Memory"])]

QuickStoreMemory(ids, concepts, keywords, topics, entities, compartment_id) ==
    /\ OnOpenClient
    /\ FreshId(ids.Memory, "Memory") # NONE
    /\ LET r == quick_store_memory(nodes, edges, ids, concepts, keywords, topics,
                                   entities, compartment_id)
           args == <<concepts, keywords, topics, entities, compartment_id>>
       IN  /\ nodes' = r.nodes
           /\ edges' = r.edges
           /\ ret' = IF r.exc # NONE THEN Raised("quick_store_memory", args, r.exc)
                      ELSE Ret("quick_store_memory", args, r.val)
    /\ UNCHANGED <<plasticity, active_compartment_id, access_cycle>>

(***************************************************************************)
(* SpecQuick: memories are stored with their concepts, keywords, topics    *)
(* and entities, some of them with an empty name or an invalid entity      *)
(* type, into a store with one compartment.                                *)
(***************************************************************************)
QuickIds == [Memory |-> <<"m1", "m2">>, Concept |-> <<"c1", "c2">>,
             Keyword |-> <<"k1", "k2">>, Topic |-> <<"t1", "t2">>,
             Entity |-> <<"e1", "e2">>]
QuickConcepts == {<<>>, <<"graphs">>, <<"graphs", "">>}
QuickKeywords == {<<>>, <<"merge">>, <<"">>}
QuickTopics == {<<>>, <<"storage", "recall">>}
QuickEntities == {<<>>, <<<<"kuzu", "technology">>>>,
                  <<<<"kuzu", "technology">>, <<"name", "INVALID_TYPE">>>>}

InitQuick ==
    /\ nodes = create_compartment(EmptyNodes,
                   [id |-> "b1", name |-> "vault", permeability |-> "open",
                    allowExternalConnections |-> TRUE, description |-> ""]).nodes
    /\ edges = EmptyEdges
    /\ plasticity = DefaultConfig
    /\ active_compartment_id = NONE
    /\ access_cycle = 0
    /\ _closed = FALSE
    /\ calls = NoCalls
    /\ ret = [op |-> "init", args |-> <<>>, val |-> NONE, exc |-> NONE, detail |-> TRUE]

NextQuick ==
    \/ \E concepts \in QuickConcepts, keywords \in QuickKeywords, topics \in QuickTopics,
          entities \in QuickEntities, compartment_id \in {NONE, "b1"} :
           QuickStoreMemory(QuickIds, concepts, keywords, topics, entities, compartment_id)
    \/ \E m \in ToSet(QuickIds.Memory) : RemoveMemoryFromCompartment(<<m>>, NONE)

SpecQuick == InitQuick /\ [][NextQuick]_vars

\* C17: when a step of quick_store_memory raises after the transaction has begun,
\* the exception reaches the caller and the graph is the graph before the call: no
\* new memory, concept, keyword, topic, entity, membership or link is left.
C17_QuickStoreRollsBack ==
    [][(ret'.op = "quick_store_memory" /\ ret'.exc # NONE)
          => nodes' = nodes /\ edges' = edges]_observed

\* The call that stored a concept, a keyword, two topics and an entity for m2 inside
\* the compartment and then met the invalid entity type has just raised; m1, stored
\* before it, is the only memory.
C17_Witness ==
    /\ ret.op = "quick_store_memory"
    /\ ret.exc = "ValueError"
    /\ ret.args = <<<<"graphs">>, <<"merge">>, <<"storage", "recall">>,
                    <<<<"kuzu", "technology">>, <<"name", "INVALID_TYPE">>>>, "b1">>
    /\ DOMAIN nodes["Memory"] = {"m1"}
    /\ DOMAIN nodes["Concept"] = {}
    /\ DOMAIN nodes["Entity"] = {}

(***************************************************************************)
(* close and the active compartment (axons/client.py)                      *)
(***************************************************************************)
\* self._closed = True; the connection and database references are dropped.
Close ==
    /\ _closed' = TRUE
    /\ ret' = Ret("close", <<>>, NONE)
    /\ UNCHANGED <<nodes, edges, plasticity, active_compartment_id, access_cycle, calls>>

\* self._active_compartment_id = compartment_id, with no query.
SetActiveCompartment(compartment_id) ==
    /\ active_compartment_id' = compartment_id
    /\ ret' = Ret("set_active_compartment", <<compartment_id>>, NONE)
    /\ UNCHANGED <<nodes, edges, plasticity, access_cycle, _closed, calls>>

GetActiveCompartment ==
    /\ ret' = Ret("get_active_compartment", <<>>, active_compartment_id)
    /\ UNCHANGED <<nodes, edges, plasticity, active_compartment_id, access_cycle, _closed,
                   calls>>

(***************************************************************************)
(* SpecClosed: a client is used and, at some point, closed; it is used     *)
(* after that as before.                                                   *)
(***************************************************************************)
InitClosed == \E cfg \in {FullRangeConfig, ZeroRateConfig} : Fresh(cfg, TRUE)

NextClosed ==
    \/ CreateMemory(PlastMemPool, "open", NONE)
    \/ \E p \in PlastPairs : LinkMemories(p[1], p[2], 50, "", NONE, FALSE)
    \/ \E d \in {NoNum, Some(0), Some(25)} : DecayWeakConnections(NoNum, d)
    \/ PruneDeadConnections(NoNum)
    \/ RunMaintenanceCycle(MaxCycles)
    \/ \E c \in {NONE, "c1"} : SetActiveCompartment(c)
    \/ GetActiveCompartment
    \/ Close

SpecClosed == InitClosed /\ [][NextClosed]_vars

\* C18: once close() has been called, every operation invoked on the client raises
\* RuntimeError("Client is closed"); none succeeds.
C18_ClosedClientRefusesEveryOperation ==
    (_closed /\ ret.op # "close") => ret.exc = "RuntimeError"

(***************************************************************************)
(* Contradictions (axons/client.py)                                        *)
(***************************************************************************)
ContradictionStatus == {"unresolved", "resolved", "accepted"}

\* SET c.status = 'resolved', c.resolution on the contradiction, then
\* MATCH (c), (m) ... MERGE (c)-[:SUPERSEDES]->(m).  Returns the new [nodes, edges].
resolve_contradiction(n, e, contradiction_id, superseding_memory_id, resolution) ==
    LET n1 == IF Exists(n, "Contradiction", contradiction_id)
              THEN [n EXCEPT !["Contradiction"][contradiction_id] =
                       [@ EXCEPT !.status = "resolved", !.resolution = resolution]]
              ELSE n
    IN  [nodes |-> n1,
         edges |-> MatchMerge(n1, e, "SUPERSEDES", "Contradiction", contradiction_id,
                              "Memory", superseding_memory_id, NoProps)]

CreateContradiction(pool, description, resolution, status) ==
    /\ OnOpenClient
    /\ FreshId(pool, "Contradiction") # NONE
    /\ LET contradiction == [id |-> FreshId(pool, "Contradiction"),
                             description |-> description, resolution |-> resolution,
                             status |-> status]
       IN  /\ nodes' = create_contradiction(nodes, contradiction)
           /\ ret' = Ret("create_contradiction", <<contradiction>>, contradiction.id)
    /\ UNCHANGED <<edges, plasticity, active_compartment_id, access_cycle>>

ResolveContradiction(contradiction_id, superseding_memory_id, resolution) ==
    /\ OnOpenClient
    /\ LET r == resolve_contradiction(nodes, edges, contradiction_id,
                                      superseding_memory_id, resolution)
       IN  /\ nodes' = r.nodes
           /\ edges' = r.edges
           /\ ret' = Ret("resolve_contradiction",
                         <<contradiction_id, superseding_memory_id, resolution>>, NONE)
    /\ UNCHANGED <<plasticity, active_compartment_id, access_cycle>>

(***************************************************************************)
(* SpecContra: contradictions of every status are recorded between two     *)
(* memories, marked and resolved, with ids that exist and ids that do not. *)
(***************************************************************************)
ContraPool == <<"z1", "z2">>
ContraIds == ToSet(ContraPool) \cup {"absent"}
ContraMemIds == {"m1", "m2", "absent"}

InitContra ==
    /\ nodes = [l \in NodeLabels |->
                   IF l = "Memory" THEN RelatedMemories(<<"m1", "m2">>)[l] ELSE EmptyTable]
    /\ edges = EmptyEdges
    /\ plasticity = DefaultConfig
    /\ active_compartment_id = NONE
    /\ access_cycle = 0
    /\ _closed = FALSE
    /\ calls = NoCalls
    /\ ret = [op |-> "init", args |-> <<>>, val |-> NONE, exc |-> NONE, detail |-> TRUE]

NextContra ==
    \/ \E status \in ContradictionStatus : CreateContradiction(ContraPool, "clash", "", status)
    \/ \E c \in ContraIds, a \in ContraMemIds, b \in ContraMemIds : MarkContradiction(c, a, b)
    \/ \E c \in ContraIds, m \in ContraMemIds, resolution \in {"", "newer"} :
           ResolveContradiction(c, m, resolution)

SpecContra == InitContra /\ [][NextContra]_vars

\* C19: in every reachable state, every Contradiction whose status is 'resolved' has
\* at least one SUPERSEDES edge to a memory, whatever calls of create_contradiction,
\* mark_contradiction and resolve_contradiction led there.
C19_ResolvedContradictionSupersedes ==
    \A c \in DOMAIN nodes["Contradiction"] :
        nodes["Contradiction"][c].status = "resolved" =>
            \E m \in DOMAIN nodes["Memory"] : <<c, m>> \in DOMAIN edges["SUPERSEDES"]

(***************************************************************************)
(* SpecGate: two memories enter and leave compartments that allow or       *)
(* forbid external connections, and are linked with and without the        *)
(* compartment check, at a strength in range and at one out of range.      *)
(***************************************************************************)
GateStrengths == {50, Unit + 25}

InitGate == Fresh(DefaultConfig, TRUE)

NextGate ==
    \/ \E c \in {NONE, "c1"} : CreateMemory(PermMemPool, "open", c)
    \/ \E name \in PermCompNames, a \in BOOLEAN :
          CreateCompartment(PermCompPool, name, "open", a, "")
    \/ \E c \in PermCompIds, a \in BOOLEAN : UpdateCompartment(c, NONE, <<a>>)
    \/ \E m \in PermMemIds, c \in PermCompIds : AddMemoryToCompartment(<<m>>, c)
    \/ \E m \in PermMemIds : RemoveMemoryFromCompartment(<<m>>, NONE)
    \/ \E a \in PermMemIds, b \in PermMemIds, s \in GateStrengths,
          check_compartments \in BOOLEAN :
          LinkMemories(a, b, s, "", NONE, check_compartments)

SpecGate == InitGate /\ [][NextGate]_vars

\* C20: for existing memories a and b and a strength in [0, 1], link_memories with
\* check_compartments = True returns False and writes nothing when
\* can_form_connection(a, b) is false; in every other case it returns True and an
\* edge a -> b exists afterwards.
C20_LinkMemoriesGate ==
    [][\A a \in PermMemIds, b \in PermMemIds, s \in GateStrengths, chk \in BOOLEAN :
          (/\ ret'.op = "link_memories"
           /\ ret'.args = <<a, b, s, chk>>
           /\ Exists(nodes, "Memory", a) /\ Exists(nodes, "Memory", b)
           /\ _validate_range(s, 0, Unit))
          => IF chk /\ ~can_form_connection(nodes, edges, a, b)
             THEN /\ ret'.exc = NONE /\ ret'.val = FALSE
                  /\ nodes' = nodes /\ edges' = edges
             ELSE /\ ret'.exc = NONE /\ ret'.val = TRUE
                  /\ <<a, b>> \in DOMAIN edges'["RELATES_TO"]
                  /\ Len(edges'["RELATES_TO"][<<a, b>>]) = 1
     ]_observed

\* m1 is in a compartment that forbids external connections and m2 is not: the
\* checked link m2 -> m1 has just been blocked, after the unchecked link m1 -> m2 was
\* written.
C20_Witness ==
    /\ ret.op = "link_memories"
    /\ ret.args = <<"m2", "m1", 50, TRUE>>
    /\ ret.val = FALSE
    /\ ~can_form_connection(nodes, edges, "m2", "m1")
    /\ DOMAIN edges["RELATES_TO"] = {<<"m1", "m2">>}

(***************************************************************************)
(* SpecRange: the four weighted link operations are called with weights    *)
(* below, inside and above [0, 1], on memories that enter a compartment    *)
(* which forbids external connections.                                     *)
(***************************************************************************)
RangeWeights == {0 - 25, 50, Unit + 25}
RangedOps == {"link_memory_to_concept", "link_memory_to_question",
              "link_memory_to_goal", "link_memories"}

InitRange ==
    /\ nodes = LinkSeed
    /\ edges = EmptyEdges
    /\ plasticity = DefaultConfig
    /\ active_compartment_id = NONE
    /\ access_cycle = 0
    /\ _closed = FALSE
    /\ calls = NoCalls
    /\ ret = [op |-> "init", args |-> <<>>, val |-> NONE, exc |-> NONE, detail |-> TRUE]

NextRange ==
    \/ CreateCompartment(<<"b1">>, "Locked", "open", FALSE, "")
    \/ \E m \in LinkIds.Memory : AddMemoryToCompartment(<<m>>, "b1")
    \/ \E m \in LinkIds.Memory : RemoveMemoryFromCompartment(<<m>>, "b1")
    \/ \E a \in LinkIds.Memory, w \in RangeWeights : LinkMemoryToConcept(a, "c1", w)
    \/ \E a \in LinkIds.Memory, w \in RangeWeights : LinkMemoryToQuestion(a, "q1", w)
    \/ \E a \in LinkIds.Memory, w \in RangeWeights : LinkMemoryToGoal(a, "g1", w)
    \/ \E p \in PlastPairs, w \in RangeWeights, check_compartments \in BOOLEAN :
          LinkMemories(p[1], p[2], w, "", NONE, check_compartments)

SpecRange == InitRange /\ [][NextRange]_vars

\* C21: link_memory_to_concept, link_memory_to_question, link_memory_to_goal and
\* link_memories called with a weight outside [0, 1] raise ValueError and leave the
\* graph as it was, also when the compartment rules would have denied the link.
C21_OutOfRangeWeightRaisesBeforeWrite ==
    [][(/\ ret'.op \in RangedOps
        /\ (ret'.args[3] < 0 \/ ret'.args[3] > Unit))
       => /\ ret'.exc = "ValueError"
          /\ nodes' = nodes
          /\ edges' = edges
     ]_observed

\* link_memories(m1, m2, 1.25, check_compartments=True) has just raised although m1
\* sits in the compartment that forbids external connections; the concept edge of
\* m1 written before is as it was.
C21_Witness ==
    /\ ret.op = "link_memories"
    /\ ret.args = <<"m1", "m2", Unit + 25, TRUE>>
    /\ ret.exc = "ValueError"
    /\ ~can_form_connection(nodes, edges, "m1", "m2")
    /\ Rows(edges["HAS_CONCEPT"], "m1", "c1") = <<[relevance |-> 50]>>
    /\ DOMAIN edges["RELATES_TO"] = {}

(***************************************************************************)
(* SpecActive: compartments are created and deleted, one of them is made   *)
(* the active compartment, and memories are created with a compartment,    *)
(* without one, and with the empty string.                                 *)
(***************************************************************************)
InitActive == Fresh(DefaultConfig, TRUE)

NextActive ==
    \/ \E name \in PermCompNames : CreateCompartment(PermCompPool, name, "open", TRUE, "")
    \/ \E c \in PermCompIds : DeleteCompartment(c, TRUE)
    \/ \E c \in PermCompIds \cup {NONE} : SetActiveCompartment(c)
    \/ \E c \in PermCompIds \cup {NONE, ""} : CreateMemory(PermMemPool, "open", c)

SpecActive == InitActive /\ [][NextActive]_vars

\* C22: after create_memory(m, compartment_id), m belongs to exactly compartment_id
\* when that is the id of an existing compartment; to exactly the active compartment
\* when compartment_id is omitted and an active compartment is set; and to no
\* compartment when compartment_id is the empty string.
C22_CreateMemoryCompartment ==
    (ret.op = "create_memory" /\ ret.exc = NONE) =>
        LET compartment_id == ret.args[1]
            comps == get_memory_compartments(nodes, edges, ret.val)
        IN  /\ (compartment_id \notin {NONE, ""}
                /\ Exists(nodes, "Compartment", compartment_id))
               => comps = {compartment_id}
            /\ (compartment_id = NONE /\ active_compartment_id # NONE)
               => comps = {active_compartment_id}
            /\ compartment_id = "" => comps = {}

(***************************************************************************)
(* SpecRecall: three memories are linked along four directed pairs and     *)
(* read with get_memory, with and without retrieval effects, under a       *)
(* linear configuration, a logarithmic one, and one that weakens the       *)
(* competitors of the memory read.                                         *)
(***************************************************************************)
LogConfig ==
    [FullRangeConfig EXCEPT !.curve = "logarithmic", !.retrieval_amount = 40]
RivalConfig ==
    [FullRangeConfig EXCEPT !.retrieval_amount = 0, !.weaken_amount = 50,
                            !.competitor_distance = 50,
                            !.retrieval_weakens_competitors = TRUE]
RecallConfigs == {FullRangeConfig, LogConfig, RivalConfig}
RecallPairs == {<<"m2", "m1">>, <<"m1", "m3">>, <<"m2", "m3">>, <<"m3", "m2">>}
RecallStrengths == {0, 50}
RecallIds == {"m1", "m2", "absent"}

InitRecall ==
    /\ nodes = [l \in NodeLabels |->
                   IF l = "Memory" THEN RelatedMemories(RelatedMemPool)[l] ELSE EmptyTable]
    /\ edges = EmptyEdges
    /\ plasticity \in RecallConfigs
    /\ active_compartment_id = NONE
    /\ access_cycle = 0
    /\ _closed = FALSE
    /\ calls = NoCalls
    /\ ret = [op |-> "init", args |-> <<>>, val |-> NONE, exc |-> NONE, detail |-> TRUE]

NextRecall ==
    \/ \E p \in RecallPairs, s \in RecallStrengths :
          LinkMemories(p[1], p[2], s, "", NONE, FALSE)
    \/ \E m \in RecallIds, a \in BOOLEAN, per_row \in BOOLEAN :
          GetMemory(m, a, per_row, MaxAccess + 1)

SpecRecall == InitRecall /\ [][NextRecall]_vars

\* C23: each get_memory call on an existing memory increases that memory's
\* accessCount by exactly 1, with or without retrieval effects, changes no other
\* memory's accessCount and returns the row with the incremented value; on an id
\* that matches no memory it returns None and changes nothing.
C23_GetMemoryCountsOneAccess ==
    [][ret'.op = "get_memory" =>
          LET id == ret'.args[1]
          IN  IF Exists(nodes, "Memory", id)
              THEN /\ nodes'["Memory"][id].accessCount = nodes["Memory"][id].accessCount + 1
                   /\ ret'.val = Some(nodes'["Memory"][id].accessCount)
                   /\ \A m \in DOMAIN nodes["Memory"] \ {id} :
                          nodes'["Memory"][m] = nodes["Memory"][m]
                   /\ DOMAIN nodes'["Memory"] = DOMAIN nodes["Memory"]
              ELSE /\ IsNone(ret'.val)
                   /\ nodes' = nodes
                   /\ edges' = edges
     ]_observed

\* m1 has just been read for the second time, without retrieval effects, and m2 once
\* before it.
C23_Witness ==
    /\ ret.op = "get_memory"
    /\ ret.args = <<"m1", FALSE>>
    /\ ret.val = Some(2)
    /\ nodes["Memory"]["m1"].accessCount = 2
    /\ nodes["Memory"]["m2"].accessCount = 1
    /\ nodes["Memory"]["m3"].accessCount = 0

(***************************************************************************)
(* The tool surface (axons/mcp/server.py), on an initialised client.  A    *)
(* tool call ends with the map it returns (ret.val) or with the exception  *)
(* that leaves the tool function (ret.exc).                                *)
(***************************************************************************)
\* store_memory: quick_store_memory builds Memory(content, summary, confidence),
\* which validates, before it begins the transaction.  Returns [nodes, edges, val, exc].
store_memory(n, e, ids, content, concepts, keywords, topics, entities, confidence, compartment_id) ==
    IF ~_validate_required_str(content) \/ ~_validate_range(confidence, 0, Unit)
    THEN [nodes |-> n, edges |-> e, val |-> NONE, exc |-> "ValueError"]
    ELSE LET r == quick_store_memory(n, e, ids, concepts, keywords, topics, entities,
                                     compartment_id)
         IN  [nodes |-> r.nodes, edges |-> r.edges, exc |-> r.exc,
              val |-> IF r.exc # NONE THEN NONE ELSE [memory_id |-> r.val]]

\* recall_memory: get_memory, and an error map when it returned None.
recall_memory(cfg, n, e, memory_id, per_row) ==
    LET r == get_memory(cfg, n, e, memory_id, TRUE, per_row)
    IN  [nodes |-> r.nodes, edges |-> r.edges, exc |-> NONE,
         val |-> IF IsNone(r.val) THEN [error |-> "not found"]
                 ELSE [accessCount |-> Val(r.val)]]

\* link_concept: Concept(name), create_concept, then link_memory_to_concept.
link_concept(n, e, ids, memory_id, concept_name, relevance) ==
    IF ~_validate_required_str(concept_name)
    THEN [nodes |-> n, edges |-> e, val |-> NONE, exc |-> "ValueError"]
    ELSE LET concept == [id |-> FirstUnused(ids.Concept, DOMAIN n["Concept"]),
                         name |-> concept_name, description |-> ""]
             c == create_concept(n, concept)
             l == link_memory_to_concept(c.nodes, e, memory_id, c.val, relevance)
         IN  [nodes |-> c.nodes, edges |-> l.edges, exc |-> l.exc,
              val |-> IF l.exc # NONE THEN NONE ELSE [concept_id |-> c.val]]

ToolStoreMemory(ids, content, concepts, entities, confidence) ==
    /\ OnOpenClient
    /\ FreshId(ids.Memory, "Memory") # NONE
    /\ LET r == store_memory(nodes, edges, ids, content, concepts, <<>>, <<>>, entities,
                             confidence, NONE)
           args == <<content, concepts, entities, confidence>>
       IN  /\ nodes' = r.nodes
           /\ edges' = r.edges
           /\ ret' = IF r.exc # NONE THEN Raised("tool:store_memory", args, r.exc)
                      ELSE Ret("tool:store_memory", args, r.val)
    /\ UNCHANGED <<plasticity, active_compartment_id, access_cycle>>

ToolRecallMemory(memory_id, per_row, max_access) ==
    /\ OnOpenClient
    /\ Exists(nodes, "Memory", memory_id) => nodes["Memory"][memory_id].accessCount < max_access
    /\ LET r == recall_memory(plasticity, nodes, edges, memory_id, per_row)
       IN  /\ nodes' = r.nodes
           /\ edges' = r.edges
           /\ ret' = Ret("tool:recall_memory", <<memory_id>>, r.val)
    /\ UNCHANGED <<plasticity, active_compartment_id, access_cycle>>

ToolLinkConcept(ids, memory_id, concept_name, relevance) ==
    /\ OnOpenClient
    /\ LET r == link_concept(nodes, edges, ids, memory_id, concept_name, relevance)
           args == <<memory_id, concept_name, relevance>>
       IN  /\ nodes' = r.nodes
           /\ edges' = r.edges
           /\ ret' = IF r.exc # NONE THEN Raised("tool:link_concept", args, r.exc)
                      ELSE Ret("tool:link_concept", args, r.val)
    /\ UNCHANGED <<plasticity, active_compartment_id, access_cycle>>

(***************************************************************************)
(* SpecTools: the store, recall and link_concept tools are called with     *)
(* arguments the client accepts and with arguments it refuses.             *)
(***************************************************************************)
ToolOps == {"tool:store_memory", "tool:recall_memory", "tool:link_concept"}

InitTools == Fresh(DefaultConfig, TRUE)

NextTools ==
    \/ \E content \in {"", "note"}, concepts \in {<<>>, <<"graphs">>},
          entities \in {<<>>, <<<<"name", "INVALID_TYPE">>>>},
          confidence \in {Unit, Unit + 25} :
           ToolStoreMemory(QuickIds, content, concepts, entities, confidence)
    \/ \E m \in {"m1", "m2", "absent"} : ToolRecallMemory(m, FALSE, MaxAccess)
    \/ \E m \in {"m1", "absent"}, name \in {"", "graphs"},
          relevance \in {50, Unit + 25} :
           ToolLinkConcept(QuickIds, m, name, relevance)

SpecTools == InitTools /\ [][NextTools]_vars

\* C24: every failure of a tool-surface operation is returned to the caller as an
\* {error: ...} map; no tool call ends by raising an exception.
C24_ToolsReturnErrorMaps ==
    ret.op \in ToolOps => ret.exc = NONE

(***************************************************************************)
(* The batch filter against the pairwise check (axons/permeability.py).    *)
(* SpecFilter: the three memories and the compartment of RelatedSeed;      *)
(* m1 and m2 enter and leave the compartment, the compartment's and the    *)
(* two memories' permeabilities change, and candidate lists are filtered   *)
(* for a requester.                                                        *)
(***************************************************************************)
FilterByPermeability(requester_memory_id, results) ==
    /\ OnOpenClient
    /\ ret' = Ret("_filter_by_permeability", <<requester_memory_id, results>>,
                  _filter_by_permeability(nodes, edges, requester_memory_id, results))
    /\ UNCHANGED <<nodes, edges, plasticity, active_compartment_id, access_cycle>>

FilterRequesters == {"m1", "m2", "absent"}
FilterCandidates ==
    {<<>>} \cup {<<a>> : a \in RelatedMemIds}
           \cup {<<a, b>> : a \in RelatedMemIds, b \in RelatedMemIds}

InitFilter ==
    /\ nodes = RelatedSeed
    /\ edges = EmptyEdges
    /\ plasticity = DefaultConfig
    /\ active_compartment_id = NONE
    /\ access_cycle = 0
    /\ _closed = FALSE
    /\ calls = NoCalls
    /\ ret = [op |-> "init", args |-> <<>>, val |-> NONE, exc |-> NONE, detail |-> TRUE]

NextFilter ==
    \/ \E m \in {"m1", "m2"} : AddMemoryToCompartment(<<m>>, "b1")
    \/ \E m \in {"m1", "m2"} : RemoveMemoryFromCompartment(<<m>>, "b1")
    \/ \E p \in Permeabilities : UpdateCompartment("b1", p, <<>>)
    \/ \E m \in {"m1", "m2"}, p \in Permeabilities : SetMemoryPermeability(<<m>>, p)
    \/ \E r \in FilterRequesters, results \in FilterCandidates :
           FilterByPermeability(r, results)

SpecFilter == InitFilter /\ [][NextFilter]_vars

\* The requester blocks inward flow at its memory layer or at a compartment layer.
BlocksInward(n, e, requester_memory_id) ==
    \/ /\ Exists(n, "Memory", requester_memory_id)
       /\ ~allows_inward(n["Memory"][requester_memory_id].permeability)
    \/ \E c \in get_memory_compartments(n, e, requester_memory_id) :
           ~allows_inward(n["Compartment"][c].permeability)

\* C25: _filter_by_permeability(R, candidates) returns the empty list when R blocks
\* inward flow at its memory layer or at one of its compartments, and otherwise
\* returns, in their original order, exactly the candidates C for which
\* can_data_flow(C, R) without a connection permeability is true.
C25_FilterAgreesWithPairwiseCheck ==
    ret.op = "_filter_by_permeability" =>
        LET R == ret.args[1]
            candidates == ret.args[2]
        IN  IF BlocksInward(nodes, edges, R)
            THEN ret.val = <<>>
            ELSE ret.val = SelectSeq(candidates,
                               LAMBDA C : can_data_flow(nodes, edges, C, R, NONE))

\* m2 asked for <<m1, m3>>: m1 sits in the OSMOTIC_INWARD compartment and is dropped,
\* m3 is kept.
C25_Witness ==
    /\ ret.op = "_filter_by_permeability"
    /\ ret.args = <<"m2", <<"m1", "m3">>>>
    /\ ~BlocksInward(nodes, edges, "m2")
    /\ get_memory_compartments(nodes, edges, "m1") = {"b1"}
    /\ nodes["Compartment"]["b1"].permeability = "osmotic_inward"
    /\ ret.val = <<"m3">>

(***************************************************************************)
(* SpecDecay: two memories are linked in both directions at strengths      *)
(* around the decay threshold, and the edges are decayed with default and  *)
(* explicit thresholds and amounts, with decay_all off and on and with     *)
(* auto_prune on and off.                                                  *)
(***************************************************************************)
KeepConfig == [FullRangeConfig EXCEPT !.auto_prune = FALSE]
DecayConfigs == {FullRangeConfig, NarrowConfig, KeepConfig}
DecayStrengths == {0, 25, 50, Unit}
DecayAtThresholds == {NoNum, Some(0), Some(Unit)}
DecayBy == {NoNum, Some(0), Some(10)}

InitDecay ==
    /\ nodes = LinkSeed
    /\ edges = EmptyEdges
    /\ plasticity \in DecayConfigs
    /\ active_compartment_id = NONE
    /\ access_cycle = 0
    /\ _closed = FALSE
    /\ calls = NoCalls
    /\ ret = [op |-> "init", args |-> <<>>, val |-> NONE, exc |-> NONE, detail |-> TRUE]

NextDecay ==
    \/ \E p \in PlastPairs, s \in DecayStrengths : LinkMemories(p[1], p[2], s, "", NONE, FALSE)
    \/ \E t \in DecayAtThresholds, d \in DecayBy : DecayWeakConnections(t, d)

SpecDecay == InitDecay /\ [][NextDecay]_vars

\* The rows of one pair after the SET of decay_weak_connections.
DecayedRows(cfg, rows, th, amt) ==
    [i \in 1..Len(rows) |->
        IF cfg.decay_all \/ rows[i].strength < th
        THEN [rows[i] EXCEPT !.strength = Max(cfg.min_strength, @ - amt)]
        ELSE rows[i]]

\* C26 as stated: decay_weak_connections(threshold, amount) with amount > 0 leaves
\* every Memory->Memory edge in place, at max(min_strength, s - amount) when decay_all
\* is true or its strength s was below the threshold, and unchanged otherwise.
C26_DecayLowersExactlyWeakEdges ==
    [][(ret'.op = "decay_weak_connections"
        /\ DecayAmount(plasticity, ret'.args[2]) > 0) =>
          LET th == IF IsNone(ret'.args[1]) THEN plasticity.decay_threshold
                    ELSE Val(ret'.args[1])
              amt == DecayAmount(plasticity, ret'.args[2])
              old == edges["RELATES_TO"]
              new == edges'["RELATES_TO"]
          IN  \A p \in DOMAIN old \cup DOMAIN new :
                  Rows(new, p[1], p[2]) = DecayedRows(plasticity, Rows(old, p[1], p[2]), th, amt)
     ]_observed

\* C26 amended: decay_weak_connections(threshold, amount) with amount > 0 sets to
\* max(min_strength, s - amount) every Memory->Memory edge when decay_all is true and
\* exactly the edges with strength s < threshold otherwise, the other edges keeping
\* their strength; then, when auto_prune is enabled, it deletes every Memory->Memory
\* edge whose strength is then at or below prune_threshold, lowered or not.
C26_DecayLowersWeakEdgesThenPrunes ==
    [][(ret'.op = "decay_weak_connections"
        /\ DecayAmount(plasticity, ret'.args[2]) > 0) =>
          LET th == IF IsNone(ret'.args[1]) THEN plasticity.decay_threshold
                    ELSE Val(ret'.args[1])
              amt == DecayAmount(plasticity, ret'.args[2])
              old == edges["RELATES_TO"]
              new == edges'["RELATES_TO"]
          IN  \A p \in DOMAIN old \cup DOMAIN new :
                  Rows(new, p[1], p[2]) =
                      IF plasticity.auto_prune
                      THEN SelectSeq(DecayedRows(plasticity, Rows(old, p[1], p[2]), th, amt),
                                     LAMBDA r : r.strength > plasticity.prune_threshold)
                      ELSE DecayedRows(plasticity, Rows(old, p[1], p[2]), th, amt)
     ]_observed

\* With decay_all off and auto_prune on, decay_weak_connections(None, 0.1) has just
\* run with the default threshold 0.5: m1 -> m2 went from 0.25 to 0.15 and m2 -> m1
\* stays at 0.5.
C26_Witness ==
    /\ ret.op = "decay_weak_connections"
    /\ ret.args = <<NoNum, Some(10)>>
    /\ ~plasticity.decay_all /\ plasticity.auto_prune
    /\ DOMAIN edges["RELATES_TO"] = PlastPairs
    /\ edges["RELATES_TO"][<<"m1", "m2">>][1].strength = 15
    /\ edges["RELATES_TO"][<<"m2", "m1">>][1].strength = 50

(***************************************************************************)
(* SpecCoact: two memories are linked in one or both directions and are    *)
(* accessed together, with no amount, amount 0 and amount 0.5, under the   *)
(* full-range configuration and the one with half learning rate.           *)
(***************************************************************************)
CoactConfigs == {FullRangeConfig, NarrowConfig}
CoactStrengths == {0, 25, 50}
CoactAmounts == {NoNum, Some(0), Some(50)}

InitCoact ==
    /\ nodes = LinkSeed
    /\ edges = EmptyEdges
    /\ plasticity \in CoactConfigs
    /\ active_compartment_id = NONE
    /\ access_cycle = 0
    /\ _closed = FALSE
    /\ calls = NoCalls
    /\ ret = [op |-> "init", args |-> <<>>, val |-> NONE, exc |-> NONE, detail |-> TRUE]

NextCoact ==
    \/ \E p \in PlastPairs, s \in CoactStrengths : LinkMemories(p[1], p[2], s, "", NONE, FALSE)
    \/ \E l \in PlastLists, a \in CoactAmounts, r \in BOOLEAN : ApplyHebbianLearning(l, a, r)

SpecCoact == InitCoact /\ [][NextCoact]_vars

\* C27: when at least one of a -> b, b -> a exists, apply_hebbian_learning([a, b],
\* amount) creates no edge and takes each existing direction from its strength s to
\* min(max_strength, s + amount * learning_rate) when amount is supplied (so a
\* supplied amount of 0 changes nothing) and to
\* min(max_strength, s + effective_amount('hebbian', s)) when it is not.
C27_HebbianStrengthensExistingEdges ==
    [][(/\ ret'.op = "apply_hebbian_learning"
        /\ Len(ret'.args[1]) = 2
        /\ \/ ~NoEdge(edges, ret'.args[1][1], ret'.args[1][2])
           \/ ~NoEdge(edges, ret'.args[1][2], ret'.args[1][1])) =>
          LET amount == ret'.args[2]
              old == edges["RELATES_TO"]
              new == edges'["RELATES_TO"]
              gain(s) == IF IsNone(amount)
                         THEN effective_amount(plasticity, "hebbian", Some(s))
                         ELSE Mul(Val(amount), plasticity.learning_rate)
          IN  /\ DOMAIN new = DOMAIN old
              /\ \A p \in {<<ret'.args[1][1], ret'.args[1][2]>>,
                           <<ret'.args[1][2], ret'.args[1][1]>>} \cap DOMAIN old :
                     /\ Len(new[p]) = Len(old[p])
                     /\ \A i \in 1..Len(old[p]) :
                            new[p][i].strength =
                                Min(plasticity.max_strength,
                                    old[p][i].strength + gain(old[p][i].strength))
     ]_observed

(***************************************************************************)
(* Retrieval effects on the edges (SpecRecall)                             *)
(***************************************************************************)
\* C28: when get_memory(M) applies retrieval effects with retrieval_strengthens on
\* and competitor weakening off, every edge X -> M with strength s becomes
\* min(max_strength, s + effective_amount('retrieval', s)), computed from that edge's
\* own strength under the configured curve, and every other edge keeps its strength.
C28_RetrievalStrengthensIncomingEdges ==
    [][(/\ ret'.op = "get_memory"
        /\ ret'.args[2]
        /\ Exists(nodes, "Memory", ret'.args[1])
        /\ plasticity.retrieval_strengthens
        /\ ~plasticity.retrieval_weakens_competitors) =>
          LET M == ret'.args[1]
              old == edges["RELATES_TO"]
              new == edges'["RELATES_TO"]
          IN  /\ DOMAIN new = DOMAIN old
              /\ \A p \in DOMAIN old :
                     /\ Len(new[p]) = Len(old[p])
                     /\ \A i \in 1..Len(old[p]) :
                            LET s == old[p][i].strength
                            IN  new[p][i].strength =
                                    IF p[2] = M
                                    THEN Min(plasticity.max_strength,
                                             s + effective_amount(plasticity, "retrieval",
                                                                  Some(s)))
                                    ELSE s
     ]_observed

\* A RELATES_TO edge between a and b in either direction.
Linked(e, a, b) == ~NoEdge(e, a, b) \/ ~NoEdge(e, b, a)

\* C29: with retrieval_weakens_competitors on, get_memory(M) lowers by
\* weaken_amount * learning_rate * competitor_distance, clamped to min_strength,
\* exactly the edges C -> O that leave a memory C linked to M and go to a memory
\* O other than M; every edge that enters a competitor from a third memory keeps its
\* strength, and no edge incident to M is weakened.
C29_CompetitorsLoseOutgoingEdgesOnly ==
    [][(/\ ret'.op = "get_memory"
        /\ ret'.args[2]
        /\ Exists(nodes, "Memory", ret'.args[1])
        /\ plasticity.retrieval_strengthens
        /\ plasticity.retrieval_weakens_competitors) =>
          LET M == ret'.args[1]
              amount == Mul(Mul(plasticity.weaken_amount, plasticity.learning_rate),
                            plasticity.competitor_distance)
              old == edges["RELATES_TO"]
              new == edges'["RELATES_TO"]
          IN  /\ DOMAIN new = DOMAIN old
              /\ \A p \in DOMAIN old :
                     /\ Len(new[p]) = Len(old[p])
                     /\ \A i \in 1..Len(old[p]) :
                            LET s == old[p][i].strength
                            IN  IF p[1] = M \/ p[2] = M
                                THEN new[p][i].strength >= s
                                ELSE IF Linked(edges, p[1], M)
                                THEN new[p][i].strength =
                                         Max(plasticity.min_strength, s - amount)
                                ELSE new[p][i].strength = s
     ]_observed

(***************************************************************************)
(* strengthen_memory_link step by step (axons/client.py).  A call makes    *)
(* two accesses to the store: the query of get_memory_link_strength and    *)
(* the MATCH ... SET of _run_write, which the database executes as one     *)
(* statement.  The frame of a call holds its arguments and its locals      *)
(* between the two.                                                        *)
(***************************************************************************)
\* current and effective_amount as the call computes them from its read.
strengthen_memory_link_read(cfg, e, memory_id_1, memory_id_2, amount) ==
    LET got == get_memory_link_strength(e, memory_id_1, memory_id_2)
        current == IF Truthy(got) THEN got ELSE Some(0)
    IN  [current |-> current,
         effective_amount |-> IF IsNone(amount)
                              THEN effective_amount(cfg, "strengthen", current)
                              ELSE Mul(Val(amount), cfg.learning_rate)]

\* A variant that writes the strength it read plus the amount.
strengthen_memory_link_write_from_read(cfg, e, memory_id_1, memory_id_2, current, amount) ==
    [e EXCEPT !["RELATES_TO"] =
        SetWhere(@, LAMBDA p, r : p = <<memory_id_1, memory_id_2>>,
                    LAMBDA r : [r EXCEPT !.strength =
                                   Min(cfg.max_strength, Val(current) + amount)])]

\* The SET adds to the strength the statement finds in the store; current is not used.
strengthen_memory_link_write(cfg, e, memory_id_1, memory_id_2, current, amount) ==
    [e EXCEPT !["RELATES_TO"] =
        SetWhere(@, LAMBDA p, r : p = <<memory_id_1, memory_id_2>>,
                    LAMBDA r : Raise(r, amount, cfg.max_strength))]

IdleFrame ==
    [pc |-> "idle", memory_id_1 |-> NONE, memory_id_2 |-> NONE, amount |-> NoNum,
     current |-> NoNum, effective_amount |-> 0]

\* Caller c enters strengthen_memory_link and runs it up to its write, or to its
\* return when the effective amount is not positive.
StrengthenRead(c, memory_id_1, memory_id_2, amount) ==
    /\ ~_closed
    /\ calls[c].pc = "idle"
    /\ LET r == strengthen_memory_link_read(plasticity, edges, memory_id_1, memory_id_2,
                                            amount)
       IN  /\ calls' = [calls EXCEPT ![c] =
                           [pc |-> IF r.effective_amount <= 0 THEN "done" ELSE "write",
                            memory_id_1 |-> memory_id_1, memory_id_2 |-> memory_id_2,
                            amount |-> amount, current |-> r.current,
                            effective_amount |-> r.effective_amount]]
           /\ ret' = IF r.effective_amount <= 0
                      THEN Ret("strengthen_memory_link",
                               <<memory_id_1, memory_id_2, amount>>, NONE)
                      ELSE ret
    /\ UNCHANGED <<nodes, edges, plasticity, active_compartment_id, access_cycle, _closed>>

\* Caller c runs its write and returns.
StrengthenWrite(c) ==
    /\ ~_closed
    /\ calls[c].pc = "write"
    /\ edges' = strengthen_memory_link_write(plasticity, edges, calls[c].memory_id_1,
                                             calls[c].memory_id_2, calls[c].current,
                                             calls[c].effective_amount)
    /\ calls' = [calls EXCEPT ![c].pc = "done"]
    /\ ret' = Ret("strengthen_memory_link",
                  <<calls[c].memory_id_1, calls[c].memory_id_2, calls[c].amount>>, NONE)
    /\ UNCHANGED <<nodes, plasticity, active_compartment_id, access_cycle, _closed>>

(***************************************************************************)
(* SpecRace: m1 -> m2 exists at 0.25 and m2 -> m1 at 0.75; two callers     *)
(* each strengthen one of the two edges by an explicit amount, their reads *)
(* and writes in any order.                                                *)
(***************************************************************************)
RaceCallers == {1, 2}
RaceAmounts == {Some(20), Some(50)}
RaceConfigs == {FullRangeConfig, NarrowConfig, ZeroRateConfig}
RaceEdges ==
    link_memories(LinkSeed,
                  link_memories(LinkSeed, EmptyEdges, "m1", "m2", 25, "", NONE, FALSE).edges,
                  "m2", "m1", 75, "", NONE, FALSE).edges

InitRace ==
    /\ nodes = LinkSeed
    /\ edges = RaceEdges
    /\ plasticity \in RaceConfigs
    /\ active_compartment_id = NONE
    /\ access_cycle = 0
    /\ _closed = FALSE
    /\ calls = [c \in RaceCallers |-> IdleFrame]
    /\ ret = [op |-> "init", args |-> <<>>, val |-> NONE, exc |-> NONE, detail |-> TRUE]

NextRace ==
    \/ \E c \in RaceCallers, p \in PlastPairs, a \in RaceAmounts :
           StrengthenRead(c, p[1], p[2], a)
    \/ \E c \in RaceCallers : StrengthenWrite(c)

SpecRace == InitRace /\ [][NextRace]_vars

\* C30: when two strengthen_memory_link calls with explicit amounts d1, d2 > 0 on the
\* same existing edge of strength s have both returned, however their reads and
\* writes interleaved, the edge has strength
\* min(max_strength, s + (d1 + d2) * learning_rate), and the edges are what the two
\* calls made one after the other, in either order, leave.
C30_InterleavedStrengthenLosesNothing ==
    (/\ \A c \in RaceCallers : calls[c].pc = "done"
     /\ calls[1].memory_id_1 = calls[2].memory_id_1
     /\ calls[1].memory_id_2 = calls[2].memory_id_2) =>
        LET a == calls[1].memory_id_1
            b == calls[1].memory_id_2
            d1 == calls[1].amount
            d2 == calls[2].amount
            s == Val(get_memory_link_strength(RaceEdges, a, b))
            serial(x, y) ==
                strengthen_memory_link(plasticity,
                    strengthen_memory_link(plasticity, RaceEdges, a, b, x), a, b, y)
        IN  /\ get_memory_link_strength(edges, a, b) =
                   Some(Min(plasticity.max_strength,
                            s + Mul(Val(d1) + Val(d2), plasticity.learning_rate)))
            /\ edges = serial(d1, d2)
            /\ edges = serial(d2, d1)

\* Both callers read m1 -> m2 at 0.25 before either wrote, strengthened it by 0.2
\* and by 0.5, and have returned: the edge is at 0.95.
C30_Witness ==
    /\ \A c \in RaceCallers : calls[c].pc = "done"
    /\ \A c \in RaceCallers :
           /\ calls[c].memory_id_1 = "m1" /\ calls[c].memory_id_2 = "m2"
           /\ calls[c].current = Some(25)
    /\ calls[1].amount = Some(20) /\ calls[2].amount = Some(50)
    /\ plasticity.learning_rate = Unit /\ plasticity.max_strength = Unit
    /\ get_memory_link_strength(edges, "m1", "m2") = Some(95)

(***************************************************************************)
(* The access-cycle counter (axons/client.py)                              *)
(***************************************************************************)
\* for _ in range(cycles): run_maintenance_cycle().  Returns [edges, access_cycle, exc];
\* on a closed client the first cycle counts and then raises at _check_closed, unless
\* the decay amount is not positive and decay_weak_connections returns before it.
RECURSIVE run_aggressive_maintenance(_, _, _, _, _)
run_aggressive_maintenance(cfg, e, cycle, closed, cycles) ==
    IF cycles <= 0 THEN [edges |-> e, access_cycle |-> cycle, exc |-> NONE]
    ELSE IF closed /\ DecayAmount(cfg, NoNum) > 0
    THEN [edges |-> e, access_cycle |-> cycle + 1, exc |-> "RuntimeError"]
    ELSE run_aggressive_maintenance(cfg,
             IF closed THEN e ELSE run_maintenance_cycle(cfg, e),
             cycle + 1, closed, cycles - 1)

\* The model stops counting at max_cycles.
RunAggressiveMaintenance(cycles, max_cycles) ==
    /\ access_cycle + cycles <= max_cycles
    /\ LET r == run_aggressive_maintenance(plasticity, edges, access_cycle, _closed, cycles)
       IN  /\ edges' = r.edges
           /\ access_cycle' = r.access_cycle
           /\ ret' = IF r.exc # NONE
                      THEN Raised("run_aggressive_maintenance", <<cycles>>, r.exc)
                      ELSE Ret("run_aggressive_maintenance", <<cycles>>, NONE)
    /\ UNCHANGED <<_closed, calls>>
    /\ UNCHANGED <<nodes, plasticity, active_compartment_id>>

(***************************************************************************)
(* SpecCycle: memories are stored, some stores being rolled back, and      *)
(* linked; maintenance runs one cycle or several at a time; the client is  *)
(* closed at some point and used after that as before.                     *)
(***************************************************************************)
CycleCounts == {0, 2}

InitCycle == \E cfg \in {FullRangeConfig, ZeroRateConfig} : Fresh(cfg, TRUE)

NextCycle ==
    \/ \E entities \in {<<>>, <<<<"name", "INVALID_TYPE">>>>} :
           QuickStoreMemory(QuickIds, <<>>, <<>>, <<>>, entities, NONE)
    \/ \E p \in PlastPairs, s \in {25, Unit} : LinkMemories(p[1], p[2], s, "", NONE, FALSE)
    \/ DecayWeakConnections(NoNum, NoNum)
    \/ RunMaintenanceCycle(MaxCycles + 2)
    \/ \E cycles \in CycleCounts : RunAggressiveMaintenance(cycles, MaxCycles + 2)
    \/ Close

SpecCycle == InitCycle /\ [][NextCycle]_vars

\* C31: every run_maintenance_cycle invocation adds exactly 1 to the access-cycle
\* counter and runs one decay pass, run_aggressive_maintenance(n) adds n and runs n
\* passes, and no other operation, a rolled-back quick_store_memory included, changes
\* the counter.
C31_CounterCountsMaintenanceCycles ==
    [][IF ret'.op = "run_maintenance_cycle"
       THEN /\ access_cycle' = access_cycle + 1
            /\ edges' = decay_weak_connections(plasticity, edges, NoNum, NoNum)
       ELSE IF ret'.op = "run_aggressive_maintenance"
       THEN access_cycle' = access_cycle + ret'.args[1]
       ELSE access_cycle' = access_cycle
     ]_observed

(***************************************************************************)
(* SpecMono: two memories and two compartments; memories join and leave    *)
(* the compartments, and the permeabilities of the memories and of the     *)
(* compartments change in every way.                                       *)
(***************************************************************************)
InitMono == Fresh(DefaultConfig, TRUE)

NextMono ==
    \/ CreateMemory(PermMemPool, "open", NONE)
    \/ \E name \in PermCompNames : CreateCompartment(PermCompPool, name, "open", TRUE, "")
    \/ \E c \in PermCompIds, p \in Permeabilities : UpdateCompartment(c, p, <<>>)
    \/ \E m \in PermMemIds, c \in PermCompIds : AddMemoryToCompartment(<<m>>, c)
    \/ \E m \in PermMemIds, c \in PermCompIds : RemoveMemoryFromCompartment(<<m>>, c)
    \/ \E m \in PermMemIds, p \in Permeabilities : SetMemoryPermeability(<<m>>, p)

SpecMono == InitMono /\ [][NextMono]_vars

\* Permeability q allows no direction that p does not allow.
NoWider(p, q) ==
    /\ allows_inward(q) => allows_inward(p)
    /\ allows_outward(q) => allows_outward(p)

\* The graph n2, e2 is the graph n1, e1 with memberships added and permeabilities
\* narrowed: the same memories and compartments, every membership kept, and no
\* memory or compartment allowing a direction it did not allow.
Narrowed(n1, e1, n2, e2) ==
    /\ DOMAIN n2["Memory"] = DOMAIN n1["Memory"]
    /\ DOMAIN n2["Compartment"] = DOMAIN n1["Compartment"]
    /\ DOMAIN e1["IN_COMPARTMENT"] \subseteq DOMAIN e2["IN_COMPARTMENT"]
    /\ \A m \in DOMAIN n1["Memory"] :
           NoWider(n1["Memory"][m].permeability, n2["Memory"][m].permeability)
    /\ \A c \in DOMAIN n1["Compartment"] :
           NoWider(n1["Compartment"][c].permeability, n2["Compartment"][c].permeability)

\* C32: add_memory_to_compartment, and set_memory_permeability and update_compartment
\* with a permeability that allows fewer directions, never turn can_data_flow from
\* false to true, for any pair of memories and any connection permeability.
C32_RestrictionNeverOpensAFlow ==
    [][(/\ ret'.op \in {"add_memory_to_compartment", "set_memory_permeability",
                        "update_compartment"}
        /\ Narrowed(nodes, edges, nodes', edges')) =>
          \A a \in PermMemIds, b \in PermMemIds, conn \in Permeabilities \cup {NONE} :
              can_data_flow(nodes', edges', a, b, conn) =>
                  can_data_flow(nodes, edges, a, b, conn)
     ]_observed

\* add_memory_to_compartment has just returned: m1 is in the open compartment c1 and
\* in the closed compartment c2, and nothing flows from it to m2.
C32_Witness ==
    /\ ret.op = "add_memory_to_compartment"
    /\ PermMemIds \subseteq DOMAIN nodes["Memory"]
    /\ get_memory_compartments(nodes, edges, "m1") = {"c1", "c2"}
    /\ get_memory_compartments(nodes, edges, "m2") = {}
    /\ nodes["Compartment"]["c1"].permeability = "open"
    /\ nodes["Compartment"]["c2"].permeability = "closed"
    /\ ~can_data_flow(nodes, edges, "m1", "m2", NONE)

(***************************************************************************)
(* Hebbian learning on edges that the compartments would not let form      *)
(* (SpecHebb)                                                              *)
(***************************************************************************)
\* C33 as stated: apply_hebbian_learning with respect_compartments = true leaves the
\* strength of every edge between two memories of the list for which
\* can_form_connection is false as it was.
C33_HebbianLeavesSeparatedEdges ==
    [][(ret'.op = "apply_hebbian_learning" /\ ret'.args[3] = TRUE) =>
          \A a \in ToSet(ret'.args[1]), b \in ToSet(ret'.args[1]) :
              (~can_form_connection(nodes, edges, a, b) /\ ~NoEdge(edges, a, b))
              => Rows(edges'["RELATES_TO"], a, b) = Rows(edges["RELATES_TO"], a, b)
      ]_observed

\* C33 amended: apply_hebbian_learning with respect_compartments = true consults
\* can_form_connection only before it creates edges: between two memories of the list
\* for which can_form_connection is false it creates no edge, and an edge that already
\* exists between them is strengthened exactly as with respect_compartments = false.
C33_HebbianGuardsCreationOnly ==
    [][(ret'.op = "apply_hebbian_learning" /\ ret'.args[3] = TRUE) =>
          LET unguarded == apply_hebbian_learning(plasticity, nodes, edges, ret'.args[1],
                                                  ret'.args[2], FALSE).edges
          IN  \A a \in ToSet(ret'.args[1]), b \in ToSet(ret'.args[1]) :
                  ~can_form_connection(nodes, edges, a, b) =>
                      IF NoEdge(edges, a, b) /\ NoEdge(edges, b, a)
                      THEN NoEdge(edges', a, b) /\ NoEdge(edges', b, a)
                      ELSE Rows(edges'["RELATES_TO"], a, b)
                               = Rows(unguarded["RELATES_TO"], a, b)
      ]_observed

\* Hebbian learning with respect_compartments = true has just run on m1 and m2, which
\* a compartment that forbids external connections separates, and the edge between
\* them, created at the implicit initial strength 0.25, is at 0.5.
C33_Witness ==
    /\ ret.op = "apply_hebbian_learning"
    /\ ret.args[3] = TRUE
    /\ {"m1", "m2"} \subseteq ToSet(ret.args[1])
    /\ {"m1", "m2"} \subseteq DOMAIN nodes["Memory"]
    /\ ~can_form_connection(nodes, edges, "m1", "m2")
    /\ ~NoEdge(edges, "m1", "m2")
    /\ edges["RELATES_TO"][<<"m1", "m2">>][1].relType = "hebbian"
    /\ edges["RELATES_TO"][<<"m1", "m2">>][1].strength = 50

(***************************************************************************)
(* The active compartment (SpecActive)                                     *)
(***************************************************************************)
\* C34: whenever the active compartment is set it names an existing compartment, and
\* a memory just created without a compartment_id while the active compartment is set
\* is a member of the active compartment.
C34_ActiveCompartmentExists ==
    active_compartment_id # NONE =>
        /\ Exists(nodes, "Compartment", active_compartment_id)
        /\ (ret.op = "create_memory" /\ ret.exc = NONE /\ ret.args[1] = NONE)
           => active_compartment_id \in get_memory_compartments(nodes, edges, ret.val)

(***************************************************************************)
(* SpecCrowd: five memories, one concept and one keyword.  m1 carries the  *)
(* concept and the keyword, any part of the other four carries the         *)
(* concept and any part of m4 and m5 the keyword; m2, m3 and m4 are        *)
(* closed and opened again, and the memories related to m1                 *)
(* are queried, the store returning the rows of the first query in every   *)
(* order and those of the second in the same order or the opposite one.    *)
(***************************************************************************)
CrowdMemPool == <<"m1", "m2", "m3", "m4", "m5">>
CrowdOthers == {"m2", "m3", "m4", "m5"}
CrowdScans ==
    {s \in [1..4 -> CrowdOthers] : \A i, j \in DOMAIN s : i # j => s[i] # s[j]}
CrowdLimits == {1, 2}

CrowdSeed == [RelatedSeed EXCEPT !["Memory"] = RelatedMemories(CrowdMemPool)["Memory"]]

\* link_memory_to_concept(m, "c1") for the memories of tagged and
\* link_memory_to_keyword(m, "k1") for the memories of termed, in pool order.
RECURSIVE CrowdLinks(_, _, _)
CrowdLinks(pool, tagged, termed) ==
    IF pool = <<>> THEN EmptyEdges
    ELSE LET e0 == CrowdLinks(Tail(pool), tagged, termed)
             e1 == IF Head(pool) \in tagged
                   THEN link_memory_to_concept(CrowdSeed, e0, Head(pool), "c1", Unit).edges
                   ELSE e0
         IN  IF Head(pool) \in termed
             THEN link_memory_to_keyword(CrowdSeed, e1, Head(pool), "k1").edges
             ELSE e1

InitCrowd ==
    /\ nodes = CrowdSeed
    /\ \E tagged \in SUBSET CrowdOthers, termed \in SUBSET {"m4", "m5"} :
           edges = CrowdLinks(CrowdMemPool, tagged \cup {"m1"}, termed \cup {"m1"})
    /\ plasticity = DefaultConfig
    /\ active_compartment_id = NONE
    /\ access_cycle = 0
    /\ _closed = FALSE
    /\ calls = NoCalls
    /\ ret = [op |-> "init", args |-> <<>>, val |-> NONE, exc |-> NONE, detail |-> TRUE]

NextCrowd ==
    \/ \E m \in {"m2", "m3", "m4"}, p \in {"open", "closed"} :
           SetMemoryPermeability(<<m>>, p)
    \/ \E limit \in CrowdLimits, respect_permeability \in BOOLEAN,
          scan \in CrowdScans, backwards \in BOOLEAN :
           GetRelatedMemories("m1", limit, respect_permeability, scan,
                              IF backwards THEN Reversed(scan) ELSE scan)

SpecCrowd == InitCrowd /\ [][NextCrowd]_vars

\* The memories that have an edge rel to a node that memory_id has an edge rel to.
Sharing(e, rel, memory_id) ==
    {r \in CrowdOthers \ {memory_id} : SharesVia(e, rel, memory_id, r)}

\* C35 as stated: when get_related_memories(id, limit, respect_permeability = true)
\* returns fewer than limit memories, every memory that shares a concept or a keyword
\* with id and whose data may flow to id is in the result.
C35_OverfetchHidesNothing ==
    (ret.op = "get_related_memories" /\ ret.args[3] /\ Len(ret.val) < ret.args[2]) =>
        \A r \in Sharing(edges, "HAS_CONCEPT", ret.args[1])
                 \cup Sharing(edges, "HAS_KEYWORD", ret.args[1]) :
            can_data_flow(nodes, edges, r, ret.args[1], NONE) => r \in ToSet(ret.val)

\* C35 amended: the same, provided the memories that share a concept with id and the
\* memories that share a keyword with id number together at most 3 * limit, a memory
\* that shares both counting twice.
C35_OverfetchHidesNothingWithinFetchLimit ==
    (/\ ret.op = "get_related_memories" /\ ret.args[3] /\ Len(ret.val) < ret.args[2]
     /\ Cardinality(Sharing(edges, "HAS_CONCEPT", ret.args[1]))
            + Cardinality(Sharing(edges, "HAS_KEYWORD", ret.args[1])) <= 3 * ret.args[2]) =>
        \A r \in Sharing(edges, "HAS_CONCEPT", ret.args[1])
                 \cup Sharing(edges, "HAS_KEYWORD", ret.args[1]) :
            can_data_flow(nodes, edges, r, ret.args[1], NONE) => r \in ToSet(ret.val)

\* The query for m1 with limit 2 has returned m4 alone: m2, m3 and m4 share the
\* concept with m1, m4 shares the keyword too, and m2 and m3 are closed.
C35_Witness ==
    /\ ret.op = "get_related_memories"
    /\ ret.args = <<"m1", 2, TRUE>>
    /\ ret.val = <<"m4">>
    /\ Sharing(edges, "HAS_CONCEPT", "m1") = {"m2", "m3", "m4"}
    /\ Sharing(edges, "HAS_KEYWORD", "m1") = {"m4"}
    /\ get_memory_permeability(nodes, "m2") = "closed"
    /\ get_memory_permeability(nodes, "m3") = "closed"

(***************************************************************************)
(* SpecWane: two memories are linked and their edges strengthened before   *)
(* maintenance begins and during its first cycles; run_maintenance_cycle   *)
(* is called again and again (weak fairness).  The configurations decay    *)
(* weak edges only or all edges, prune or keep, have a floor below or      *)
(* above prune_threshold, a zero learning rate, and a prune_threshold as   *)
(* high as decay_threshold.                                                *)
(***************************************************************************)
AllConfig == [FullRangeConfig EXCEPT !.decay_all = TRUE]
EagerPruneConfig == [FullRangeConfig EXCEPT !.prune_threshold = 50]
WaneConfigs ==
    {FullRangeConfig, AllConfig, NarrowConfig, KeepConfig, ZeroRateConfig, EagerPruneConfig}
WaneStrengths == {25, 50, Unit}
\* Cycles enough for the strongest edge to decay to the floor after the last write.
WaneCycles == MaxCycles + 4

InitWane ==
    /\ nodes = LinkSeed
    /\ edges = EmptyEdges
    /\ plasticity \in WaneConfigs
    /\ active_compartment_id = NONE
    /\ access_cycle = 0
    /\ _closed = FALSE
    /\ calls = NoCalls
    /\ ret = [op |-> "init", args |-> <<>>, val |-> NONE, exc |-> NONE, detail |-> TRUE]

NextWane ==
    \/ /\ access_cycle < MaxCycles
       /\ \E p \in PlastPairs, s \in WaneStrengths :
              LinkMemories(p[1], p[2], s, "", NONE, FALSE)
    \/ /\ access_cycle < MaxCycles
       /\ \E p \in PlastPairs : StrengthenMemoryLink(p[1], p[2], Some(50))
    \/ RunMaintenanceCycle(WaneCycles)

SpecWane == InitWane /\ [][NextWane]_vars /\ WF_vars(RunMaintenanceCycle(WaneCycles))

\* The edge a->b exists and the decay pass of maintenance applies to it.
Waning(a, b) ==
    /\ ~NoEdge(edges, a, b)
    /\ plasticity.decay_all
       \/ edges["RELATES_TO"][<<a, b>>][1].strength < plasticity.decay_threshold

\* A positive effective decay amount, auto_prune, and min_strength <= prune_threshold.
WaneToDeath ==
    /\ DecayAmount(plasticity, NoNum) > 0
    /\ plasticity.auto_prune
    /\ plasticity.min_strength <= plasticity.prune_threshold

\* The edge a->b is gone, or has just been strengthened.
GoneOrStrengthened(a, b) ==
    \/ NoEdge(edges, a, b)
    \/ ret.op = "strengthen_memory_link" /\ ret.args[1] = a /\ ret.args[2] = b

\* C36 as stated: with a positive effective decay amount, auto_prune and
\* min_strength <= prune_threshold, an edge below decay_threshold (any edge under
\* decay_all) that is not strengthened again is eventually deleted by repeated
\* maintenance cycles; and with decay_all disabled a maintenance cycle leaves every
\* edge at or above decay_threshold as it was.
C36_MaintenanceWearsWeakEdgesOnly ==
    /\ (WaneToDeath /\ Waning("m1", "m2")) ~> GoneOrStrengthened("m1", "m2")
    /\ (WaneToDeath /\ Waning("m2", "m1")) ~> GoneOrStrengthened("m2", "m1")
    /\ [][(ret'.op = "run_maintenance_cycle" /\ ~plasticity.decay_all) =>
             \A p \in DOMAIN edges["RELATES_TO"] :
                 edges["RELATES_TO"][p][1].strength >= plasticity.decay_threshold
                 => Rows(edges'["RELATES_TO"], p[1], p[2]) = edges["RELATES_TO"][p]
         ]_observed

\* C36 amended: the same, the edges that a maintenance cycle leaves as they were being
\* those at or above decay_threshold and above prune_threshold.
C36_MaintenanceWearsWeakEdgesPrunesDeadOnes ==
    /\ (WaneToDeath /\ Waning("m1", "m2")) ~> GoneOrStrengthened("m1", "m2")
    /\ (WaneToDeath /\ Waning("m2", "m1")) ~> GoneOrStrengthened("m2", "m1")
    /\ [][(ret'.op = "run_maintenance_cycle" /\ ~plasticity.decay_all) =>
             \A p \in DOMAIN edges["RELATES_TO"] :
                 (/\ edges["RELATES_TO"][p][1].strength >= plasticity.decay_threshold
                  /\ edges["RELATES_TO"][p][1].strength > plasticity.prune_threshold)
                 => Rows(edges'["RELATES_TO"], p[1], p[2]) = edges["RELATES_TO"][p]
         ]_observed

\* Under decay_all with a floor of 0, three maintenance cycles have run, the edge
\* m1->m2 is gone and the edge m2->m1 is down to 0.25.
C36_Witness ==
    /\ plasticity = AllConfig
    /\ ret.op = "run_maintenance_cycle"
    /\ access_cycle = 3
    /\ NoEdge(edges, "m1", "m2")
    /\ ~NoEdge(edges, "m2", "m1")
    /\ edges["RELATES_TO"][<<"m2", "m1">>][1].strength = 25

(***************************************************************************)
(* The direction of the plasticity operations (SpecPlast)                  *)
(***************************************************************************)
\* C37: strengthen_memory_link and the strengthening of a retrieval never lower the
\* strength of an edge, and weaken_memory_link and decay_weak_connections never raise
\* it, whatever strength link_memories gave the edge and whatever min_strength and
\* max_strength are configured.
C37_PlasticityMovesOneWay ==
    [][\A p \in DOMAIN edges["RELATES_TO"] \cap DOMAIN edges'["RELATES_TO"] :
          /\ (\/ ret'.op = "strengthen_memory_link"
              \/ ret'.op = "get_memory" /\ ~plasticity.retrieval_weakens_competitors)
             => edges'["RELATES_TO"][p][1].strength >= edges["RELATES_TO"][p][1].strength
          /\ ret'.op \in {"weaken_memory_link", "decay_weak_connections"}
             => edges'["RELATES_TO"][p][1].strength <= edges["RELATES_TO"][p][1].strength
      ]_observed

(***************************************************************************)
(* SpecRelink: two memories are linked, and linked again with another      *)
(* strength, relation type and permeability; pairs with and without an     *)
(* edge are strengthened and weakened.                                     *)
(***************************************************************************)
RelinkStrengths == {25, 75, Unit + 25}
RelinkTypes == {"", "causes"}
RelinkPermeabilities == {NONE, "closed"}
RelinkAmounts == {NoNum, Some(50)}

InitRelink ==
    /\ nodes = LinkSeed
    /\ edges = EmptyEdges
    /\ plasticity \in {FullRangeConfig, NarrowConfig}
    /\ active_compartment_id = NONE
    /\ access_cycle = 0
    /\ _closed = FALSE
    /\ calls = NoCalls
    /\ ret = [op |-> "init", args |-> <<>>, val |-> NONE, exc |-> NONE, detail |-> TRUE]

NextRelink ==
    \/ \E p \in PlastPairs, s \in RelinkStrengths, t \in RelinkTypes,
          q \in RelinkPermeabilities : LinkMemories(p[1], p[2], s, t, q, FALSE)
    \/ \E p \in PlastPairs, a \in RelinkAmounts : StrengthenMemoryLink(p[1], p[2], a)
    \/ \E p \in PlastPairs, a \in RelinkAmounts : WeakenMemoryLink(p[1], p[2], a)

SpecRelink == InitRelink /\ [][NextRelink]_vars

\* C38: link_memories(a, b, strength', relType', permeability') on a pair that has an
\* edge a->b leaves the edge tables as they were, so the strength, relType and
\* permeability of that edge too, and returns true when strength' is in [0,1];
\* strengthen_memory_link and weaken_memory_link on a pair with no edge leave the edge
\* tables as they were, so create no edge.
C38_RelinkAndMissingEdgeChangeNothing ==
    [][/\ (ret'.op = "link_memories" /\ ~NoEdge(edges, ret'.args[1], ret'.args[2]))
          => /\ edges' = edges
             /\ (0 <= ret'.args[3] /\ ret'.args[3] <= Unit)
                => (ret'.exc = NONE /\ ret'.val = TRUE)
       /\ (ret'.op \in {"strengthen_memory_link", "weaken_memory_link"}
           /\ NoEdge(edges, ret'.args[1], ret'.args[2]))
          => (edges' = edges /\ NoEdge(edges', ret'.args[1], ret'.args[2]))
      ]_observed

\* link_memories(m1, m2, 0.75, ...) has just returned true, and the edge m1->m2 has
\* strength 0.25, relation type "causes" and permeability "closed".
C38_Witness ==
    /\ ret.op = "link_memories"
    /\ ret.args[1] = "m1" /\ ret.args[2] = "m2" /\ ret.args[3] = 75
    /\ ret.val = TRUE
    /\ ~NoEdge(edges, "m1", "m2")
    /\ edges["RELATES_TO"][<<"m1", "m2">>]
           = <<[strength |-> 25, relType |-> "causes", permeability |-> "closed"]>>

(***************************************************************************)
(* SpecTwin: two agents call create_concept on one client without being    *)
(* serialized: the lookup and the insert of a call are two steps, and the  *)
(* steps of the two calls come in any order.  The store is empty or holds  *)
(* the concept "tla" already.                                              *)
(***************************************************************************)
TwinCallers == {1, 2}
TwinNames == {"tla", "tlc"}
TwinIds == <<"n1", "n2">>
TwinStored == create_concept(EmptyNodes, [id |-> "n3", name |-> "tla", description |-> ""]).nodes

IdleTwin == [pc |-> "idle", concept |-> NONE, result |-> {}, overlaps |-> FALSE, val |-> NONE]

\* Caller c enters create_concept and runs its check_query.
CreateConceptCheck(c, name) ==
    /\ ~_closed
    /\ calls[c].pc = "idle"
    /\ LET concept == [id |-> TwinIds[c], name |-> name, description |-> ""]
       IN  calls' = [calls EXCEPT ![c] =
                        [pc |-> "checked", concept |-> concept,
                         result |-> create_concept_check(nodes, concept),
                         overlaps |-> \E d \in TwinCallers : calls[d].pc = "checked",
                         val |-> NONE]]
    /\ UNCHANGED <<nodes, edges, plasticity, active_compartment_id, access_cycle, _closed,
                   ret>>

\* Caller c runs the rest of create_concept and returns.
CreateConceptWrite(c) ==
    /\ ~_closed
    /\ calls[c].pc = "checked"
    /\ LET r == create_concept_write(nodes, calls[c].concept, calls[c].result)
       IN  /\ nodes' = r.nodes
           /\ calls' = [calls EXCEPT ![c].pc = "done", ![c].val = r.val]
           /\ ret' = Ret("create_concept", <<calls[c].concept>>, r.val)
    /\ UNCHANGED <<edges, plasticity, active_compartment_id, access_cycle, _closed>>

InitTwin ==
    /\ nodes \in {EmptyNodes, TwinStored}
    /\ edges = EmptyEdges
    /\ plasticity = DefaultConfig
    /\ active_compartment_id = NONE
    /\ access_cycle = 0
    /\ _closed = FALSE
    /\ calls = [c \in TwinCallers |-> IdleTwin]
    /\ ret = [op |-> "init", args |-> <<>>, val |-> NONE, exc |-> NONE, detail |-> TRUE]

NextTwin ==
    \/ \E c \in TwinCallers, name \in TwinNames : CreateConceptCheck(c, name)
    \/ \E c \in TwinCallers : CreateConceptWrite(c)

SpecTwin == InitTwin /\ [][NextTwin]_vars

\* Both calls have returned, they were for one name, and one began between the lookup
\* and the insert of the other.
TwinsInterleaved ==
    /\ \A c \in TwinCallers : calls[c].pc = "done"
    /\ calls[1].concept.name = calls[2].concept.name
    /\ \E c \in TwinCallers : calls[c].overlaps

\* C39 as stated: when two create_concept calls for one name have interleaved between
\* the lookup and the insert, the graph holds a single Concept node of that name and
\* both calls have returned its id.
C39_InterleavedInterningKeepsOneNode ==
    TwinsInterleaved =>
        /\ Cardinality(SameTuple(nodes, "Concept", calls[1].concept)) = 1
        /\ calls[1].val = calls[2].val
        /\ calls[1].val \in SameTuple(nodes, "Concept", calls[1].concept)

\* C39 amended: when two create_concept calls for one name have interleaved between
\* the lookup and the insert, each has returned the id of a Concept node of that name;
\* when the name was stored before the first lookup the graph holds that single node
\* and both calls have returned its id, and otherwise the graph holds two Concept
\* nodes of that name, one inserted by each call, and each call has returned the id
\* of its own.
C39_InterleavedInterningDoublesNewNames ==
    TwinsInterleaved =>
        LET named == SameTuple(nodes, "Concept", calls[1].concept)
        IN  /\ \A c \in TwinCallers : calls[c].val \in named
            /\ IF \E c \in TwinCallers : calls[c].result # {}
               THEN /\ Cardinality(named) = 1
                    /\ calls[1].val = calls[2].val
               ELSE /\ named = {calls[1].concept.id, calls[2].concept.id}
                    /\ Cardinality(named) = 2
                    /\ \A c \in TwinCallers : calls[c].val = calls[c].concept.id

\* Two interleaved calls for "tlc" on the empty store have returned, and the graph
\* holds the Concept nodes n1 and n2, both named "tlc".
C39_Witness ==
    /\ TwinsInterleaved
    /\ calls[1].concept.name = "tlc"
    /\ DOMAIN nodes["Concept"] = {"n1", "n2"}
    /\ nodes["Concept"]["n1"].name = "tlc" /\ nodes["Concept"]["n2"].name = "tlc"
    /\ calls[1].val = "n1" /\ calls[2].val = "n2"

====
